---- MODULE Spec2Model ----
(***************************************************************************)
(* The bonding-curve pricing and reserve engine of FunPump, as implemented *)
(* three times in the repository: src/deep.rs (impl Curve), src/gpt.rs     *)
(* (impl Curve and the token_launch_program handlers) and src/deepseek.rs  *)
(* (state::Curve and the curve_launchpad handlers).                        *)
(*                                                                         *)
(* The Rust code computes on u64 and u128.  TLC's integers are narrower    *)
(* than that, so an unsigned integer is a sequence of base-10000 limbs,    *)
(* least significant first, without leading zero limbs (0 is << >>), and   *)
(* the arithmetic below is exact at the widths of the source.              *)
(***************************************************************************)
EXTENDS Integers, Sequences, FiniteSets, TLC

\* ------------------------------------------------------------------------
\* Unbounded naturals (the mathematical value of a u64 / u128 expression)
\* ------------------------------------------------------------------------

\* Radix of the limb representation.
Base == 10000

RECURSIVE Norm(_)
\* Drop the most significant zero limbs.
Norm(s) ==
  IF s = << >> THEN s
  ELSE IF s[Len(s)] = 0 THEN Norm(SubSeq(s, 1, Len(s) - 1))
  ELSE s

RECURSIVE BN(_)
\* The natural number n of TLC as a limb sequence.
BN(n) == IF n = 0 THEN << >> ELSE <<n % Base>> \o BN(n \div Base)

Limb(a, i) == IF i <= Len(a) THEN a[i] ELSE 0

RECURSIVE AddC(_, _, _, _)
AddC(a, b, i, c) ==
  IF i > Len(a) /\ i > Len(b)
  THEN (IF c = 0 THEN << >> ELSE <<c>>)
  ELSE LET s == Limb(a, i) + Limb(b, i) + c
       IN  <<s % Base>> \o AddC(a, b, i + 1, s \div Base)

\* a + b
Add(a, b) == AddC(a, b, 1, 0)

RECURSIVE LtAt(_, _, _)
LtAt(a, b, i) ==
  IF i = 0 THEN FALSE
  ELSE IF a[i] # b[i] THEN a[i] < b[i]
  ELSE LtAt(a, b, i - 1)

\* a < b
Lt(a, b) == IF Len(a) # Len(b) THEN Len(a) < Len(b) ELSE LtAt(a, b, Len(a))

\* a <= b
Leq(a, b) == ~Lt(b, a)

RECURSIVE SubB(_, _, _, _)
SubB(a, b, i, br) ==
  IF i > Len(a) THEN << >>
  ELSE LET d == a[i] - Limb(b, i) - br
       IN  IF d < 0 THEN <<d + Base>> \o SubB(a, b, i + 1, 1)
           ELSE <<d>> \o SubB(a, b, i + 1, 0)

\* a - b, for b <= a
Sub(a, b) == Norm(SubB(a, b, 1, 0))

RECURSIVE MulSmallC(_, _, _, _)
MulSmallC(a, k, i, c) ==
  IF i > Len(a)
  THEN (IF c = 0 THEN << >> ELSE <<c>>)
  ELSE LET p == a[i] * k + c
       IN  <<p % Base>> \o MulSmallC(a, k, i + 1, p \div Base)

\* a * k for one limb k
MulSmall(a, k) == IF k = 0 THEN << >> ELSE MulSmallC(a, k, 1, 0)

RECURSIVE ColSum(_, _, _, _)
\* The sum of a[i] * b[k + 1 - i] over the limbs i.. of a that meet a limb of b.
ColSum(a, b, k, i) ==
  IF i > Len(a) \/ i > k THEN 0
  ELSE a[i] * b[k + 1 - i] + ColSum(a, b, k, i + 1)

RECURSIVE MulC(_, _, _, _)
\* Column k of the schoolbook product, with the carry c of the columns below.
MulC(a, b, k, c) ==
  IF k > Len(a) + Len(b) - 1 THEN BN(c)
  ELSE LET lo == IF k > Len(b) THEN k + 1 - Len(b) ELSE 1
           s  == ColSum(a, b, k, lo) + c
       IN  <<s % Base>> \o MulC(a, b, k + 1, s \div Base)

\* a * b
Mul(a, b) == IF a = << >> \/ b = << >> THEN << >> ELSE MulC(a, b, 1, 0)

RECURSIVE QSearch(_, _, _, _)
\* The largest q in lo..hi with b * q <= r, given b * lo <= r.
QSearch(r, b, lo, hi) ==
  IF lo >= hi THEN lo
  ELSE LET mid == (lo + hi + 1) \div 2
       IN  IF Leq(MulSmall(b, mid), r)
           THEN QSearch(r, b, mid, hi)
           ELSE QSearch(r, b, lo, mid - 1)

\* floor(r / b) for b <= r < b * Base: one limb of a quotient.
QDigit(r, b) ==
  LET n    == Len(b)
      top  == b[n]
      rtop == Limb(r, n) + Base * Limb(r, n + 1)
      lo   == rtop \div (top + 1)
      hi0  == rtop \div top
      hi   == IF hi0 > Base - 1 THEN Base - 1 ELSE hi0
  IN  QSearch(r, b, lo, hi)

RECURSIVE DivStep(_, _, _, _, _)
\* Long division of a by b from limb i downwards; r the running remainder.
DivStep(a, b, i, r, q) ==
  IF i = 0 THEN [quot |-> Norm(q), rem |-> r]
  ELSE LET r1 == Norm(<<a[i]>> \o r)
           d  == IF Lt(r1, b) THEN 0 ELSE QDigit(r1, b)
       IN  IF d = 0
           THEN DivStep(a, b, i - 1, r1, <<0>> \o q)
           ELSE DivStep(a, b, i - 1, Sub(r1, MulSmall(b, d)), <<d>> \o q)

\* floor(a / b), for b # 0
Div(a, b) == DivStep(a, b, Len(a), << >>, << >>).quot

\* a mod b, for b # 0
Mod(a, b) == DivStep(a, b, Len(a), << >>, << >>).rem

\* ------------------------------------------------------------------------
\* Rust integer types and the outcome of an expression
\* ------------------------------------------------------------------------

\* 2^64: u64 holds 0 .. U64 - 1
U64 == <<1616, 955, 737, 6744, 1844>>

\* 2^128: u128 holds 0 .. U128 - 1
U128 == <<1456, 6821, 4317, 4607, 6337, 4634, 938, 6692, 2823, 340>>

\* 2^63: i64 holds -I63 .. I63 - 1
I63 == <<5808, 5477, 368, 3372, 922>>

\* pub const BASIS_POINTS: u16 = 10000
BASIS_POINTS == 10000

\* An expression ends in a value (Ok), in an error the function returns
\* (Err, a CustomError) or in a panic that aborts the program (Abort).
Ok(v)  == [tag |-> "Ok", val |-> v, err |-> "None"]
Err(e) == [tag |-> "Err", val |-> << >>, err |-> e]
Abort  == [tag |-> "Abort", val |-> << >>, err |-> "None"]

IsOk(r) == r.tag = "Ok"

\* `a * b` on u128.  A product past u128::MAX panics in a build with overflow
\* checks (oc) and wraps in a build without them.
mul(oc, ra, rb) ==
  IF ~IsOk(ra) THEN ra
  ELSE IF ~IsOk(rb) THEN rb
  ELSE LET p == Mul(ra.val, rb.val)
       IN  IF Lt(p, U128) THEN Ok(p)
           ELSE IF oc THEN Abort
           ELSE Ok(Mod(p, U128))

\* a.saturating_mul(b) on u128
saturating_mul(ra, rb) ==
  IF ~IsOk(ra) THEN ra
  ELSE IF ~IsOk(rb) THEN rb
  ELSE LET p == Mul(ra.val, rb.val)
       IN  IF Lt(p, U128) THEN Ok(p) ELSE Ok(Sub(U128, BN(1)))

\* The product as each file writes it: `*` in deep.rs and deepseek.rs,
\* saturating_mul in gpt.rs.
times(v, oc, ra, rb) ==
  IF v = "gpt" THEN saturating_mul(ra, rb) ELSE mul(oc, ra, rb)

\* a.pow(2) on u128: overflow as for `*`, in every file.
pow2(oc, ra) == mul(oc, ra, ra)

\* `a / b` on u128: a zero divisor panics in every build.
div(ra, rb) ==
  IF ~IsOk(ra) THEN ra
  ELSE IF ~IsOk(rb) THEN rb
  ELSE IF rb.val = << >> THEN Abort
  ELSE Ok(Div(ra.val, rb.val))

\* a.checked_add(b).ok_or(CustomError::CalculationError)? on u128
checked_add(ra, rb) ==
  IF ~IsOk(ra) THEN ra
  ELSE IF ~IsOk(rb) THEN rb
  ELSE LET s == Add(ra.val, rb.val)
       IN  IF Lt(s, U128) THEN Ok(s) ELSE Err("CalculationError")

\* a.checked_mul(b).ok_or(CustomError::CalculationError)? on u128
checked_mul(ra, rb) ==
  IF ~IsOk(ra) THEN ra
  ELSE IF ~IsOk(rb) THEN rb
  ELSE LET p == Mul(ra.val, rb.val)
       IN  IF Lt(p, U128) THEN Ok(p) ELSE Err("CalculationError")

\* a.checked_sub(b).ok_or(CustomError::CalculationError)?
checked_sub(ra, rb) ==
  IF ~IsOk(ra) THEN ra
  ELSE IF ~IsOk(rb) THEN rb
  ELSE IF Lt(ra.val, rb.val) THEN Err("CalculationError")
  ELSE Ok(Sub(ra.val, rb.val))

\* `x as u64` from u128: the low 64 bits.
as_u64(ra) == IF ~IsOk(ra) THEN ra ELSE Ok(Mod(ra.val, U64))

\* a.min(b) on u64
min(ra, b) == IF ~IsOk(ra) THEN ra ELSE IF Lt(b, ra.val) THEN Ok(b) ELSE ra

\* ------------------------------------------------------------------------
\* impl Curve: pricing.  v names the file ("deep", "gpt", "deepseek"), oc the
\* build's overflow checks, self the curve, amt the u64 argument.
\* custom_params[0], [1], [2] of the source are custom_params[1], [2], [3].
\* ------------------------------------------------------------------------

CurveTypes == {"Linear", "Exponential", "Sigmoid", "Custom"}

\* Linear Bonding Curve
calculate_linear_buy_price(v, oc, self, amt) ==
  LET amount        == Ok(amt)
      virtual_sol   == Ok(self.virtual_sol_reserves)
      virtual_token == Ok(self.virtual_token_reserves)
      slope         == Ok(self.custom_params[1])
      price         == div(times(v, oc, virtual_sol, amount), virtual_token)
      linear_factor == div(times(v, oc, amount, slope), Ok(BN(BASIS_POINTS)))
      total_price   == checked_add(price, linear_factor)
  IN  as_u64(total_price)

calculate_linear_sell_price(v, oc, self, amt) ==
  LET amount        == Ok(amt)
      virtual_sol   == Ok(self.virtual_sol_reserves)
      virtual_token == Ok(self.virtual_token_reserves)
      slope         == Ok(self.custom_params[1])
      base_price    == div(times(v, oc, virtual_sol, amount), virtual_token)
      linear_factor == div(times(v, oc, amount, slope), Ok(BN(BASIS_POINTS)))
      total_price   == checked_sub(base_price, linear_factor)
  IN  min(as_u64(total_price), self.real_sol_reserves)

\* Exponential Bonding Curve
calculate_exponential_buy_price(v, oc, self, amt) ==
  LET amount        == Ok(amt)
      virtual_sol   == Ok(self.virtual_sol_reserves)
      virtual_token == Ok(self.virtual_token_reserves)
      exponent      == Ok(self.custom_params[2])
      base_price    == div(times(v, oc, virtual_sol, amount), virtual_token)
      exp_factor    == pow2(oc, div(times(v, oc, amount, exponent),
                                    Ok(BN(BASIS_POINTS))))
      total_price   == checked_add(base_price, exp_factor)
  IN  as_u64(total_price)

calculate_exponential_sell_price(v, oc, self, amt) ==
  LET amount        == Ok(amt)
      virtual_sol   == Ok(self.virtual_sol_reserves)
      virtual_token == Ok(self.virtual_token_reserves)
      exponent      == Ok(self.custom_params[2])
      base_price    == div(times(v, oc, virtual_sol, amount), virtual_token)
      exp_factor    == pow2(oc, div(times(v, oc, amount, exponent),
                                    Ok(BN(BASIS_POINTS))))
      total_price   == checked_sub(base_price, exp_factor)
  IN  min(as_u64(total_price), self.real_sol_reserves)

\* Helper: x * 10000 / (x + midpoint)
sigmoid(x, midpoint) ==
  LET numerator   == checked_mul(x, Ok(BN(BASIS_POINTS)))
      denominator == IF ~IsOk(numerator) THEN numerator
                     ELSE checked_add(x, midpoint)
  IN  div(numerator, denominator)

\* Sigmoid Bonding Curve
calculate_sigmoid_buy_price(v, oc, self, amt) ==
  LET amount        == Ok(amt)
      virtual_sol   == Ok(self.virtual_sol_reserves)
      virtual_token == Ok(self.virtual_token_reserves)
      midpoint      == Ok(self.custom_params[3])
      x             == div(times(v, oc, amount, Ok(BN(BASIS_POINTS))),
                           virtual_token)
      sig           == IF ~IsOk(x) THEN x ELSE sigmoid(x, midpoint)
      price         == IF ~IsOk(sig) THEN sig
                       ELSE div(times(v, oc, times(v, oc, virtual_sol, amount), sig),
                                times(v, oc, virtual_token, Ok(BN(BASIS_POINTS))))
  IN  as_u64(price)

calculate_sigmoid_sell_price(v, oc, self, amt) ==
  LET amount        == Ok(amt)
      virtual_sol   == Ok(self.virtual_sol_reserves)
      virtual_token == Ok(self.virtual_token_reserves)
      midpoint      == Ok(self.custom_params[3])
      x             == div(times(v, oc, amount, Ok(BN(BASIS_POINTS))),
                           virtual_token)
      sig           == IF ~IsOk(x) THEN x ELSE sigmoid(x, midpoint)
      price         == IF ~IsOk(sig) THEN sig
                       ELSE div(times(v, oc, times(v, oc, virtual_sol, amount), sig),
                                times(v, oc, virtual_token, Ok(BN(BASIS_POINTS))))
  IN  min(as_u64(price), self.real_sol_reserves)

\* Custom Bonding Curve
calculate_custom_buy_price(v, oc, self, amt) ==
  LET amount        == Ok(amt)
      virtual_sol   == Ok(self.virtual_sol_reserves)
      virtual_token == Ok(self.virtual_token_reserves)
      slope         == Ok(self.custom_params[1])
      exponent      == Ok(self.custom_params[2])
      midpoint      == Ok(self.custom_params[3])
      base_price    == div(times(v, oc, virtual_sol, amount), virtual_token)
      custom_factor == div(times(v, oc, times(v, oc, amount, slope), exponent),
                           times(v, oc, midpoint, Ok(BN(BASIS_POINTS))))
      total_price   == checked_add(base_price, custom_factor)
  IN  as_u64(total_price)

calculate_custom_sell_price(v, oc, self, amt) ==
  LET amount        == Ok(amt)
      virtual_sol   == Ok(self.virtual_sol_reserves)
      virtual_token == Ok(self.virtual_token_reserves)
      slope         == Ok(self.custom_params[1])
      exponent      == Ok(self.custom_params[2])
      midpoint      == Ok(self.custom_params[3])
      base_price    == div(times(v, oc, virtual_sol, amount), virtual_token)
      custom_factor == div(times(v, oc, times(v, oc, amount, slope), exponent),
                           times(v, oc, midpoint, Ok(BN(BASIS_POINTS))))
      total_price   == checked_sub(base_price, custom_factor)
  IN  min(as_u64(total_price), self.real_sol_reserves)

\* state::Curve of deepseek.rs: the base price alone, the sell price not capped.
ds_calculate_linear_buy_price(oc, self, amt) ==
  LET amount        == Ok(amt)
      virtual_sol   == Ok(self.virtual_sol_reserves)
      virtual_token == Ok(self.virtual_token_reserves)
      price         == div(mul(oc, virtual_sol, amount), virtual_token)
  IN  as_u64(price)

ds_calculate_linear_sell_price(oc, self, amt) ==
  LET amount        == Ok(amt)
      virtual_sol   == Ok(self.virtual_sol_reserves)
      virtual_token == Ok(self.virtual_token_reserves)
      price         == div(mul(oc, virtual_sol, amount), virtual_token)
  IN  as_u64(price)

\* require!(amount > 0, CustomError::InvalidAmount)
require_amount(amt) == amt # << >>

calculate_buy_price(v, oc, self, amt) ==
  IF v = "deepseek"
  THEN IF self.curve_type = "Linear"
       THEN ds_calculate_linear_buy_price(oc, self, amt)
       ELSE Err("InvalidCurveParameters")
  ELSE IF ~require_amount(amt) THEN Err("InvalidAmount")
  ELSE CASE self.curve_type = "Linear" ->
              calculate_linear_buy_price(v, oc, self, amt)
         [] self.curve_type = "Exponential" ->
              calculate_exponential_buy_price(v, oc, self, amt)
         [] self.curve_type = "Sigmoid" ->
              calculate_sigmoid_buy_price(v, oc, self, amt)
         [] self.curve_type = "Custom" ->
              calculate_custom_buy_price(v, oc, self, amt)

calculate_sell_price(v, oc, self, amt) ==
  IF v = "deepseek"
  THEN IF self.curve_type = "Linear"
       THEN ds_calculate_linear_sell_price(oc, self, amt)
       ELSE Err("InvalidCurveParameters")
  ELSE IF ~require_amount(amt) THEN Err("InvalidAmount")
  ELSE CASE self.curve_type = "Linear" ->
              calculate_linear_sell_price(v, oc, self, amt)
         [] self.curve_type = "Exponential" ->
              calculate_exponential_sell_price(v, oc, self, amt)
         [] self.curve_type = "Sigmoid" ->
              calculate_sigmoid_sell_price(v, oc, self, amt)
         [] self.curve_type = "Custom" ->
              calculate_custom_sell_price(v, oc, self, amt)

\* ------------------------------------------------------------------------
\* impl Curve: initialize and update_reserves
\* ------------------------------------------------------------------------

\* An i64 as sign and magnitude; zero is not negative.
I64(neg, mag) == [neg |-> neg /\ mag # << >>, mag |-> mag]

\* `x as i64` from u64: values from 2^63 on come out negative.
as_i64(x) == IF Lt(x, I63) THEN I64(FALSE, x) ELSE I64(TRUE, Sub(U64, x))

\* `-x` on i64: -i64::MIN panics with overflow checks and is i64::MIN without.
neg_i64(oc, d) ==
  IF d.neg /\ d.mag = I63 THEN (IF oc THEN Abort ELSE Ok(d))
  ELSE Ok(I64(~d.neg, d.mag))

\* `d.abs() as u64`: i64::MIN.abs() panics with overflow checks and is
\* i64::MIN without, which `as u64` turns into 2^63.
abs_as_u64(oc, d) ==
  IF d.neg /\ d.mag = I63 THEN (IF oc THEN Abort ELSE Ok(I63))
  ELSE Ok(d.mag)

\* a.checked_add(b).ok_or(CustomError::CalculationError)? on u64
u64_checked_add(ra, rb) ==
  IF ~IsOk(ra) THEN ra
  ELSE IF ~IsOk(rb) THEN rb
  ELSE LET s == Add(ra.val, rb.val)
       IN  IF Lt(s, U64) THEN Ok(s) ELSE Err("CalculationError")

\* apply_delta with the subtraction saturating at zero instead of failing.
apply_delta_saturating(v, oc, reserve, delta) ==
  IF ~delta.neg /\ delta.mag # << >>
  THEN u64_checked_add(Ok(reserve), Ok(delta.mag))
  ELSE IF v = "deep" \/ delta.neg
  THEN LET a == abs_as_u64(oc, delta)
       IN  IF ~IsOk(a) THEN a
           ELSE IF Lt(reserve, a.val) THEN Ok(BN(0))
           ELSE Ok(Sub(reserve, a.val))
  ELSE Ok(reserve)

\* One reserve under one delta.  deep.rs subtracts in a plain `else`, the
\* other files in `else if delta < 0`.
apply_delta(v, oc, reserve, delta) ==
  IF ~delta.neg /\ delta.mag # << >>
  THEN u64_checked_add(Ok(reserve), Ok(delta.mag))
  ELSE IF v = "deep" \/ delta.neg
  THEN checked_sub(Ok(reserve), abs_as_u64(oc, delta))
  ELSE Ok(reserve)

\* The unit value of Ok(())
Unit == << >>

\* pub fn update_reserves(&mut self, sol_delta: i64, token_delta: i64).
\* The outcome and the curve the call leaves behind.
update_reserves(v, oc, self, sol_delta, token_delta) ==
  LET sol   == apply_delta(v, oc, self.real_sol_reserves, sol_delta)
      self1 == IF IsOk(sol) THEN [self EXCEPT !.real_sol_reserves = sol.val]
               ELSE self
      tok   == apply_delta(v, oc, self1.real_token_reserves, token_delta)
      self2 == IF IsOk(tok) THEN [self1 EXCEPT !.real_token_reserves = tok.val]
               ELSE self1
  IN  IF ~IsOk(sol) THEN [res |-> sol, self |-> self]
      ELSE IF ~IsOk(tok) THEN [res |-> tok, self |-> self1]
      ELSE [res |-> Ok(Unit), self |-> self2]

\* initialize with the real reserves the other way round: the SOL reserve
\* starts at virtual_sol and the token reserve at zero.
initialize_real_sol_from_virtual(self, curve_type, virtual_sol, virtual_token, custom_params) ==
  IF ~(virtual_sol # << >> /\ virtual_token # << >>)
  THEN [res |-> Err("InvalidCurveParameters"), self |-> self]
  ELSE [res  |-> Ok(Unit),
        self |-> [curve_type                     |-> curve_type,
                  virtual_sol_reserves           |-> virtual_sol,
                  virtual_token_reserves         |-> virtual_token,
                  real_sol_reserves              |-> virtual_sol,
                  real_token_reserves            |-> BN(0),
                  initial_virtual_token_reserves |-> virtual_sol,
                  custom_params                  |-> custom_params]]

\* pub fn initialize(&mut self, curve_type, virtual_sol, virtual_token,
\* custom_params) of deep.rs and gpt.rs.
initialize(self, curve_type, virtual_sol, virtual_token, custom_params) ==
  IF ~(virtual_sol # << >> /\ virtual_token # << >>)
  THEN [res |-> Err("InvalidCurveParameters"), self |-> self]
  ELSE [res  |-> Ok(Unit),
        self |-> [curve_type                     |-> curve_type,
                  virtual_sol_reserves           |-> virtual_sol,
                  virtual_token_reserves         |-> virtual_token,
                  real_sol_reserves              |-> BN(0),
                  real_token_reserves            |-> virtual_token,
                  initial_virtual_token_reserves |-> virtual_token,
                  custom_params                  |-> custom_params]]

\* The curve of an account that `init` has just created: all zero.
DefaultCurve ==
  [curve_type                     |-> "Linear",
   virtual_sol_reserves           |-> BN(0),
   virtual_token_reserves         |-> BN(0),
   real_sol_reserves              |-> BN(0),
   real_token_reserves            |-> BN(0),
   initial_virtual_token_reserves |-> BN(0),
   custom_params                  |-> <<BN(0), BN(0), BN(0)>>]

\* ------------------------------------------------------------------------
\* i64 arithmetic, on the sign and magnitude of I64
\* ------------------------------------------------------------------------

\* a < b on i64
i64_lt(a, b) ==
  IF a.neg /\ ~b.neg THEN TRUE
  ELSE IF ~a.neg /\ b.neg THEN FALSE
  ELSE IF a.neg THEN Lt(b.mag, a.mag)
  ELSE Lt(a.mag, b.mag)

\* The sum of two signed values, exactly.
signed_add(a, b) ==
  IF a.neg = b.neg THEN I64(a.neg, Add(a.mag, b.mag))
  ELSE IF Lt(a.mag, b.mag) THEN I64(b.neg, Sub(b.mag, a.mag))
  ELSE I64(a.neg, Sub(a.mag, b.mag))

\* Whether a signed value is one of i64: -2^63 .. 2^63 - 1.
fits_i64(x) == IF x.neg THEN Leq(x.mag, I63) ELSE Lt(x.mag, I63)

\* The i64 that a sum or difference of two i64 wraps to.
wrap_i64(x) ==
  IF fits_i64(x) THEN x
  ELSE IF x.neg THEN I64(FALSE, Sub(U64, x.mag))
  ELSE I64(TRUE, Sub(U64, x.mag))

\* `a + b` on i64: a sum outside i64 panics with overflow checks and wraps
\* without.
i64_add(oc, a, b) ==
  LET s == signed_add(a, b)
  IN  IF fits_i64(s) THEN Ok(s)
      ELSE IF oc THEN Abort
      ELSE Ok(wrap_i64(s))

\* a.checked_add(b).ok_or(CustomError::CalculationError)? on i64
i64_checked_add(a, b) ==
  LET s == signed_add(a, b)
  IN  IF fits_i64(s) THEN Ok(s) ELSE Err("CalculationError")

\* a.checked_sub(b).ok_or(CustomError::CalculationError)? on i64
i64_checked_sub(a, b) ==
  LET d == signed_add(a, I64(~b.neg, b.mag))
  IN  IF fits_i64(d) THEN Ok(d) ELSE Err("CalculationError")

\* `a / b` on i64: the quotient truncated toward zero; a zero divisor and
\* i64::MIN / -1 panic in every build.
i64_div(ra, rb) ==
  IF ~IsOk(ra) THEN ra
  ELSE IF ~IsOk(rb) THEN rb
  ELSE IF rb.val.mag = << >> THEN Abort
  ELSE IF ra.val.neg /\ ra.val.mag = I63 /\ rb.val.neg /\ rb.val.mag = BN(1)
  THEN Abort
  ELSE Ok(I64(ra.val.neg # rb.val.neg, Div(ra.val.mag, rb.val.mag)))

\* a.min(b) on i64
i64_min(ra, b) ==
  IF ~IsOk(ra) THEN ra ELSE IF i64_lt(b, ra.val) THEN Ok(b) ELSE ra

\* `x as u128` and `x as u64` from i64: a negative value is sign-extended.
i64_as_u128(rx) ==
  IF ~IsOk(rx) THEN rx
  ELSE IF rx.val.neg THEN Ok(Sub(U128, rx.val.mag)) ELSE Ok(rx.val.mag)

i64_as_u64(rx) ==
  IF ~IsOk(rx) THEN rx
  ELSE IF rx.val.neg THEN Ok(Sub(U64, rx.val.mag)) ELSE Ok(rx.val.mag)

\* `a * b` on u64: a product past u64::MAX panics with overflow checks and
\* wraps without.
u64_mul(oc, ra, rb) ==
  IF ~IsOk(ra) THEN ra
  ELSE IF ~IsOk(rb) THEN rb
  ELSE LET p == Mul(ra.val, rb.val)
       IN  IF Lt(p, U64) THEN Ok(p)
           ELSE IF oc THEN Abort
           ELSE Ok(Mod(p, U64))

\* a.checked_div(b).ok_or(CustomError::CalculationError)? on u128
checked_div(ra, rb) ==
  IF ~IsOk(ra) THEN ra
  ELSE IF ~IsOk(rb) THEN rb
  ELSE IF rb.val = << >> THEN Err("CalculationError")
  ELSE Ok(Div(ra.val, rb.val))

\* ------------------------------------------------------------------------
\* impl VestingConfig of deep.rs.  A milestone is a record of time (i64),
\* percentage (u8, a number 0 .. 255) and is_claimed.
\* ------------------------------------------------------------------------

VestingScheduleTypes == {"Linear", "Staggered", "Cliff", "CustomMilestone"}

\* 2^16: u16 holds 0 .. U16 - 1
U16 == 65536

\* The percentages of milestones[lo .. hi] added up, exactly; the range is
\* halved so that long lists do not nest deeply.
RECURSIVE percentage_sum(_, _, _)
percentage_sum(milestones, lo, hi) ==
  IF lo > hi THEN 0
  ELSE IF lo = hi THEN milestones[lo].percentage
  ELSE percentage_sum(milestones, lo, (lo + hi) \div 2)
         + percentage_sum(milestones, (lo + hi) \div 2 + 1, hi)

\* milestones.iter().map(|m| m.percentage as u16).sum() into a u16: a sum
\* past u16::MAX panics with overflow checks and wraps without.
total_percentage(oc, milestones) ==
  LET s == percentage_sum(milestones, 1, Len(milestones))
  IN  IF s < U16 THEN Ok(s)
      ELSE IF oc THEN Abort
      ELSE Ok(s % U16)

\* The VestingConfig of an account that `init` has just created.
DefaultVesting ==
  [schedule_type   |-> "Linear",
   start_time      |-> I64(FALSE, BN(0)),
   end_time        |-> I64(FALSE, BN(0)),
   cliff_period    |-> I64(FALSE, BN(0)),
   total_amount    |-> BN(0),
   released_amount |-> BN(0),
   milestones      |-> << >>]

\* VestingConfig::initialize: the outcome and the config the call leaves
\* behind.  The scalar fields are written before the milestones are looked
\* at.
vesting_initialize(oc, self, schedule_type, start_time, end_time, cliff_period, total_amount, milestones) ==
  IF ~i64_lt(start_time, end_time)
  THEN [res |-> Err("InvalidTimeParameters"), self |-> self]
  ELSE IF cliff_period.neg
  THEN [res |-> Err("InvalidTimeParameters"), self |-> self]
  ELSE IF total_amount = << >>
  THEN [res |-> Err("InvalidAmount"), self |-> self]
  ELSE LET self1 == [self EXCEPT !.schedule_type   = schedule_type,
                                 !.start_time      = start_time,
                                 !.end_time        = end_time,
                                 !.cliff_period    = cliff_period,
                                 !.total_amount    = total_amount,
                                 !.released_amount = BN(0)]
           sum   == total_percentage(oc, milestones)
       IN  IF schedule_type # "CustomMilestone"
           THEN [res |-> Ok(Unit), self |-> [self1 EXCEPT !.milestones = milestones]]
           ELSE IF milestones = << >>
           THEN [res |-> Err("InvalidMilestone"), self |-> self1]
           ELSE IF ~IsOk(sum) THEN [res |-> sum, self |-> self1]
           ELSE IF sum.val # 100
           THEN [res |-> Err("InvalidMilestone"), self |-> self1]
           ELSE [res |-> Ok(Unit), self |-> [self1 EXCEPT !.milestones = milestones]]

\* calculate_linear_vesting with the time elapsed counted from 0 instead of
\* from start_time.
calculate_linear_vesting_from_zero(self, current_time) ==
  IF ~i64_lt(current_time, self.end_time) THEN Ok(self.total_amount)
  ELSE LET total_duration == i64_checked_sub(self.end_time, self.start_time)
       IN  IF ~IsOk(total_duration) THEN total_duration
           ELSE as_u64(checked_div(checked_mul(Ok(self.total_amount),
                                               i64_as_u128(Ok(current_time))),
                                   i64_as_u128(total_duration)))

\* fn calculate_linear_vesting
calculate_linear_vesting(self, current_time) ==
  IF ~i64_lt(current_time, self.end_time) THEN Ok(self.total_amount)
  ELSE LET total_duration == i64_checked_sub(self.end_time, self.start_time)
           elapsed_time   == i64_checked_sub(current_time, self.start_time)
       IN  IF ~IsOk(total_duration) THEN total_duration
           ELSE as_u64(checked_div(checked_mul(Ok(self.total_amount),
                                               i64_as_u128(elapsed_time)),
                                   i64_as_u128(total_duration)))

\* fn calculate_cliff_vesting
calculate_cliff_vesting(self, current_time) ==
  IF ~i64_lt(current_time, self.end_time) THEN Ok(self.total_amount)
  ELSE Ok(BN(0))

\* let stages = 4; // Quarterly releases
stages == 4

\* fn calculate_staggered_vesting
calculate_staggered_vesting(oc, self, current_time) ==
  LET total_duration == i64_checked_sub(self.end_time, self.start_time)
      stage_duration == i64_div(total_duration, Ok(I64(FALSE, BN(stages))))
      elapsed_time   == i64_checked_sub(current_time, self.start_time)
      current_stage  == i64_div(elapsed_time, stage_duration)
      stage_amount   == Div(self.total_amount, BN(stages))
  IN  IF ~IsOk(total_duration) THEN total_duration
      ELSE u64_mul(oc, Ok(stage_amount),
                   i64_as_u64(i64_min(current_stage, I64(FALSE, BN(stages)))))

\* One pass of the loop of calculate_milestone_vesting, on milestone i,
\* vested_amount being the sum so far.
milestone_step(self, current_time, i, vested_amount) ==
  IF ~i64_lt(current_time, self.milestones[i].time) /\ ~self.milestones[i].is_claimed
  THEN LET milestone_amount ==
             checked_div(checked_mul(Ok(self.total_amount),
                                     Ok(BN(self.milestones[i].percentage))),
                         Ok(BN(100)))
       IN  u64_checked_add(Ok(vested_amount), as_u64(milestone_amount))
  ELSE Ok(vested_amount)

\* The loop over milestones lo .. hi in order, leaving at the first error;
\* the range is halved so that long lists do not nest deeply.
RECURSIVE milestone_loop(_, _, _, _, _)
milestone_loop(self, current_time, lo, hi, vested_amount) ==
  IF lo > hi THEN Ok(vested_amount)
  ELSE IF lo = hi THEN milestone_step(self, current_time, lo, vested_amount)
  ELSE LET first == milestone_loop(self, current_time, lo, (lo + hi) \div 2,
                                   vested_amount)
       IN  IF ~IsOk(first) THEN first
           ELSE milestone_loop(self, current_time, (lo + hi) \div 2 + 1, hi,
                               first.val)

\* fn calculate_milestone_vesting
calculate_milestone_vesting(self, current_time) ==
  milestone_loop(self, current_time, 1, Len(self.milestones), BN(0))

\* The amount of each kind, before the cap of calculate_vested_amount.
vested_by_kind(oc, self, current_time) ==
  CASE self.schedule_type = "Linear" ->
         calculate_linear_vesting(self, current_time)
    [] self.schedule_type = "Cliff" ->
         calculate_cliff_vesting(self, current_time)
    [] self.schedule_type = "Staggered" ->
         calculate_staggered_vesting(oc, self, current_time)
    [] self.schedule_type = "CustomMilestone" ->
         calculate_milestone_vesting(self, current_time)

\* pub fn calculate_vested_amount(&self, current_time: i64) -> Result<u64>
calculate_vested_amount(oc, self, current_time) ==
  LET cliff_end == i64_add(oc, self.start_time, self.cliff_period)
  IN  IF ~IsOk(cliff_end) THEN cliff_end
      ELSE IF i64_lt(current_time, cliff_end.val) THEN Ok(BN(0))
      ELSE min(vested_by_kind(oc, self, current_time), self.total_amount)

\* ------------------------------------------------------------------------
\* StreamConfig of deep.rs.  The file declares the account (76-82) and the
\* head of initialize (475-481) and ends there; the bodies below follow the
\* specification's section 4.4, with the arithmetic checked as its section 7
\* has it (overflow, underflow and division by zero are CalculationError)
\* and nothing written by a call that fails.
\* ------------------------------------------------------------------------

StreamTypes == {"Linear", "Exponential", "Custom"}

\* The account before initialize.
DefaultStream ==
  [created |-> FALSE, stream_type |-> "Linear", rate |-> BN(0),
   interval |-> I64(FALSE, BN(0)), last_update_time |-> I64(FALSE, BN(0)),
   total_streamed |-> BN(0)]

\* initialize(stream_kind, rate, interval): last_update_time is the time of
\* creation and total_streamed is 0.
stream_initialize(self, now, stream_type, rate, interval) ==
  [res  |-> Ok(Unit),
   self |-> [created |-> TRUE, stream_type |-> stream_type, rate |-> rate,
             interval |-> interval, last_update_time |-> now,
             total_streamed |-> BN(0)]]

\* a / b on i64 rounded down (floor division), b not 0.
i64_floor_div(a, b) ==
  LET q == Div(a.mag, b.mag)
      exact == Mod(a.mag, b.mag) = << >>
  IN  IF a.neg = b.neg \/ a.mag = << >> THEN I64(FALSE, q)
      ELSE IF exact THEN I64(TRUE, q)
      ELSE I64(TRUE, Add(q, BN(1)))

\* streamable_amount(now): rate * (elapsed / interval) for a Linear stream,
\* a u64; the other kinds are unsupported and fail as a bad configuration.
streamable_amount(self, now) ==
  IF self.stream_type # "Linear" THEN Err("InvalidCurveParameters")
  ELSE LET elapsed == i64_checked_sub(now, self.last_update_time)
       IN  IF ~IsOk(elapsed) THEN elapsed
           ELSE IF self.interval.mag = << >> THEN Err("CalculationError")
           ELSE LET n == i64_floor_div(elapsed.val, self.interval)
                    amount == Mul(self.rate, n.mag)
                IN  IF n.neg \/ ~fits_i64(n) \/ ~Lt(amount, U64)
                    THEN Err("CalculationError")
                    ELSE Ok(amount)

\* checkpoint as it would be if it left last_update_time where it was.
checkpoint_keeps_time(self, now) ==
  LET amount == streamable_amount(self, now)
      total  == u64_checked_add(Ok(self.total_streamed), amount)
  IN  IF ~IsOk(total) THEN [res |-> total, self |-> self]
      ELSE [res  |-> amount,
            self |-> [self EXCEPT !.total_streamed = total.val]]

\* checkpoint(now): commits streamable_amount(now) into total_streamed,
\* advances last_update_time to now and returns the amount.
checkpoint(self, now) ==
  LET amount == streamable_amount(self, now)
      total  == u64_checked_add(Ok(self.total_streamed), amount)
  IN  IF ~IsOk(total) THEN [res |-> total, self |-> self]
      ELSE [res  |-> amount,
            self |-> [self EXCEPT !.total_streamed = total.val,
                                  !.last_update_time = now]]

\* ------------------------------------------------------------------------
\* State
\* ------------------------------------------------------------------------

VARIABLES
  variant,          \* the file whose program runs: "deep", "gpt" or "deepseek"
  overflow_checks,  \* whether the build panics on integer overflow
  curve,            \* the Curve of the launch account
  launched,         \* whether the curve has been set up (initialize, set_params)
  fees,             \* deepseek.rs: fee_recipient, withdraw_authority, fee_basis_points
  sol_vault,        \* lamports of the sol_vault account
  token_vault,      \* tokens of the token_vault account
  updates,          \* how many calls have written the reserves so far
  last,             \* the last call: name, arguments, outcome, the state before it
  vesting_config,   \* deep.rs: the VestingConfig account
  clock,            \* lib.rs: Clock::get()?.unix_timestamp
  vesting,          \* lib.rs: the Vesting account, once initialize_vesting made it
  vault,            \* lib.rs: the Vault account
  vesting_token_account,  \* lib.rs: tokens held by the vesting token account
  vault_token_account,    \* lib.rs: tokens held by the vault token account
  released,         \* lib.rs: tokens unlock_vested_tokens has sent to the owner
  stream_config,    \* deep.rs: the StreamConfig account
  launch_curve,     \* src/src/lib.rs: the Curve account of state/curve.rs
  call              \* the last call on a schedule or a vault, as `last`

\* The state of the pricing engine and the state of the schedules.
curve_vars == <<curve, launched, fees, sol_vault, token_vault, updates, last>>

schedule_vars == <<vesting_config, clock, vesting, vault, vesting_token_account, vault_token_account, released, stream_config, launch_curve, call>>

vars == <<variant, overflow_checks, curve_vars, schedule_vars>>

\* The files: deep.rs, gpt.rs, deepseek.rs, src/lib.rs and src/src/lib.rs.
Variants == {"deep", "gpt", "deepseek", "lib", "src_lib"}

\* u64::MAX, i64::MAX and i64::MIN
U64_MAX == Sub(U64, BN(1))
I64_MAX == I64(FALSE, Sub(I63, BN(1)))
I64_MIN == I64(TRUE, I63)

\* The most calls that write the reserves in one behaviour.
MaxUpdates == 3

\* Launchpad of deepseek.rs after `initialize`: the fee fields are zeroed.
DefaultFees ==
  [fee_recipient |-> "nobody", withdraw_authority |-> "nobody",
   fee_basis_points |-> BN(0)]

\* src/src/lib.rs: the Curve account of state/curve.rs as `init` creates it.
DefaultLaunch ==
  [created |-> FALSE, total_supply |-> BN(0), reserve_token |-> BN(0),
   reserve_sol |-> BN(0), curve_type |-> 0,
   custom_params |-> <<BN(0), BN(0), BN(0)>>]

\* lib.rs: no Vesting account yet; `init` makes it once for a mint and owner.
NoVesting ==
  [created |-> FALSE, amount |-> BN(0), start_time |-> I64(FALSE, BN(0)),
   end_time |-> I64(FALSE, BN(0)), target_market_cap |-> BN(0),
   is_locked |-> FALSE]

\* The record of a call.  wrote names the code that wrote the reserve fields
\* during the call: "update_reserves", the handler itself ("direct"), the
\* set-up of the curve ("initialize") or nothing ("none").
Call(op, args, res, wrote) ==
  [op |-> op, args |-> args, res |-> res, wrote |-> wrote,
   pre |-> curve, was_launched |-> launched]

Init ==
  /\ variant \in Variants
  /\ overflow_checks \in BOOLEAN
  /\ curve = DefaultCurve
  /\ launched = FALSE
  /\ fees = DefaultFees
  /\ sol_vault = BN(0)
  /\ token_vault = BN(0)
  /\ updates = 0
  /\ last = [op |-> "none", args |-> << >>, res |-> Ok(Unit),
             wrote |-> "none", pre |-> DefaultCurve, was_launched |-> FALSE]
  /\ vesting_config = DefaultVesting
  /\ clock = I64(FALSE, BN(0))
  /\ vesting = NoVesting
  /\ vault = [locked_amount |-> BN(0), locked_until |-> I64(FALSE, BN(0))]
  /\ vesting_token_account = BN(0)
  /\ vault_token_account = BN(0)
  /\ released = BN(0)
  /\ stream_config = DefaultStream
  /\ launch_curve = DefaultLaunch
  /\ call = [op |-> "none", args |-> << >>, res |-> Ok(Unit), pre |-> << >>]

\* ------------------------------------------------------------------------
\* The calls on a Curve
\* ------------------------------------------------------------------------

\* Curve::initialize on the curve of a new account (deep.rs, gpt.rs); the
\* account is created once.
Initialize(curve_type, virtual_sol, virtual_token, custom_params) ==
  /\ variant \in {"deep", "gpt"}
  /\ ~launched
  /\ LET r == initialize(curve, curve_type, virtual_sol, virtual_token,
                         custom_params)
     IN  /\ curve' = r.self
         /\ launched' = IsOk(r.res)
         /\ last' = Call("initialize",
                         <<curve_type, virtual_sol, virtual_token,
                           custom_params>>, r.res,
                         IF IsOk(r.res) THEN "initialize" ELSE "none")
  /\ UNCHANGED schedule_vars /\ UNCHANGED <<variant, overflow_checks, fees, sol_vault, token_vault,
                 updates>>

\* set_params of deepseek.rs: the only place that sets up a state::Curve.
\* The launchpad's authority is "authority".
SetParams(signer, fee_recipient, withdraw_authority, initial_virtual_token_reserves, initial_virtual_sol_reserves, initial_real_token_reserves, fee_basis_points) ==
  /\ variant = "deepseek"
  /\ LET args == <<signer, initial_virtual_token_reserves,
                   initial_virtual_sol_reserves, initial_real_token_reserves>>
     IN  IF signer # "authority"
         THEN /\ last' = Call("set_params", args, Err("UnauthorizedAccess"),
                              "none")
              /\ UNCHANGED schedule_vars /\ UNCHANGED <<curve, launched, fees>>
         ELSE /\ curve' =
                   [curve_type                     |-> "Linear",
                    virtual_sol_reserves           |-> initial_virtual_sol_reserves,
                    virtual_token_reserves         |-> initial_virtual_token_reserves,
                    real_sol_reserves              |-> BN(0),
                    real_token_reserves            |-> initial_real_token_reserves,
                    initial_virtual_token_reserves |-> initial_virtual_token_reserves,
                    custom_params                  |-> <<BN(0), BN(0), BN(0)>>]
              /\ fees' = [fee_recipient      |-> fee_recipient,
                          withdraw_authority |-> withdraw_authority,
                          fee_basis_points   |-> fee_basis_points]
              /\ launched' = TRUE
              /\ last' = Call("set_params", args, Ok(Unit),
                              IF launched THEN "direct" ELSE "initialize")
  /\ UNCHANGED schedule_vars /\ UNCHANGED <<variant, overflow_checks, sol_vault, token_vault, updates>>

CalculateBuyPrice(amount) ==
  /\ last' = Call("calculate_buy_price", <<amount>>,
                  calculate_buy_price(variant, overflow_checks, curve, amount),
                  "none")
  /\ UNCHANGED schedule_vars /\ UNCHANGED <<variant, overflow_checks, curve, launched, fees, sol_vault,
                 token_vault, updates>>

CalculateSellPrice(amount) ==
  /\ last' = Call("calculate_sell_price", <<amount>>,
                  calculate_sell_price(variant, overflow_checks, curve, amount),
                  "none")
  /\ UNCHANGED schedule_vars /\ UNCHANGED <<variant, overflow_checks, curve, launched, fees, sol_vault,
                 token_vault, updates>>

UpdateReserves(sol_delta, token_delta) ==
  /\ launched
  /\ updates < MaxUpdates
  /\ LET r == update_reserves(variant, overflow_checks, curve, sol_delta,
                              token_delta)
     IN  /\ curve' = r.self
         /\ last' = Call("update_reserves", <<sol_delta, token_delta>>, r.res,
                         IF r.self # curve \/ IsOk(r.res)
                         THEN "update_reserves" ELSE "none")
  /\ updates' = updates + 1
  /\ UNCHANGED schedule_vars /\ UNCHANGED <<variant, overflow_checks, launched, fees, sol_vault,
                 token_vault>>

\* ------------------------------------------------------------------------
\* Spec: the curve as an object, set up once, then its reserves updated
\* ------------------------------------------------------------------------

VirtualSolValues == {BN(0), BN(1)}
VirtualTokenValues == {BN(0), BN(1), U64_MAX}
SolDeltas == {I64(FALSE, BN(0)), I64(FALSE, BN(1)), I64(TRUE, BN(1)),
              I64_MAX, I64_MIN}
TokenDeltas == {I64(FALSE, BN(0)), I64(FALSE, BN(1)), I64(TRUE, BN(1))}
Signers == {"authority", "other"}

Next ==
  \/ \E t \in CurveTypes, vs \in VirtualSolValues, vt \in VirtualTokenValues :
        Initialize(t, vs, vt, <<BN(100), BN(200), BN(5000)>>)
  \/ \E sg \in Signers, vt \in VirtualTokenValues, vs \in VirtualSolValues,
        rt \in VirtualTokenValues :
        /\ ~launched
        /\ SetParams(sg, "treasury", "treasury", vt, vs, rt, BN(100))
  \/ \E sd \in SolDeltas, td \in TokenDeltas : UpdateReserves(sd, td)

Spec == Init /\ [][Next]_vars

\* ------------------------------------------------------------------------
\* QuoteSpec: pricing on curves set up, and funded, by the calls above
\* ------------------------------------------------------------------------

QuoteVirtualSol == {BN(100000000), U64_MAX}
QuoteVirtualToken == {BN(1), BN(1000000)}
QuoteParamValues ==
  { <<BN(0), BN(0), BN(0)>>,
    <<BN(100), BN(200), BN(5000)>>,
    <<U64_MAX, U64_MAX, BN(1)>> }
QuoteDeposits == {I64(FALSE, BN(1000))}
Amounts == {BN(0), BN(1), BN(10000), U64_MAX}

QuoteNext ==
  \/ \E t \in CurveTypes, vs \in QuoteVirtualSol, vt \in QuoteVirtualToken,
        cp \in QuoteParamValues : Initialize(t, vs, vt, cp)
  \/ \E vt \in QuoteVirtualToken, vs \in QuoteVirtualSol :
        /\ ~launched
        /\ SetParams("authority", "treasury", "treasury", vt, vs, vt, BN(100))
  \/ \E sd \in QuoteDeposits :
        /\ updates = 0
        /\ last.op \in {"initialize", "set_params"}
        /\ UpdateReserves(sd, I64(FALSE, BN(0)))
  \/ \E a \in Amounts : launched /\ CalculateBuyPrice(a)
  \/ \E a \in Amounts : launched /\ CalculateSellPrice(a)

QuoteSpec == Init /\ [][QuoteNext]_vars

\* ------------------------------------------------------------------------
\* ProgramSpec: the instructions of gpt.rs and deepseek.rs.  An instruction
\* that fails, by an error or by a panic, leaves every account as it was.
\* ------------------------------------------------------------------------

\* system_program::transfer and token::transfer: the source must hold the
\* amount and the destination's balance must stay a u64.
transfer(from, to, amount) ==
  IF Lt(from, amount) THEN Err("InsufficientFunds")
  ELSE IF ~Lt(Add(to, amount), U64) THEN Err("Overflow")
  ELSE Ok(<<Sub(from, amount), Add(to, amount)>>)

\* The instruction failed: only the record of the call changes.
Rollback(op, args, res) ==
  /\ last' = Call(op, args, res, "none")
  /\ UNCHANGED schedule_vars /\ UNCHANGED <<variant, overflow_checks, curve, launched, fees, sol_vault,
                 token_vault, updates>>

\* The trade's closing call of update_reserves and, when it succeeds, the
\* instruction's writes.
Settle(op, args, sol_delta, token_delta, sol_vault1, token_vault1) ==
  IF ~IsOk(sol_delta) THEN Rollback(op, args, sol_delta)
  ELSE IF ~IsOk(token_delta) THEN Rollback(op, args, token_delta)
  ELSE \E r \in {update_reserves(variant, overflow_checks, curve,
                                 sol_delta.val, token_delta.val)} :
         IF ~IsOk(r.res) THEN Rollback(op, args, r.res)
         ELSE /\ curve' = r.self
              /\ sol_vault' = sol_vault1
              /\ token_vault' = token_vault1
              /\ updates' = updates + 1
              /\ last' = Call(op, args, Ok(Unit), "update_reserves")
              /\ UNCHANGED schedule_vars /\ UNCHANGED <<variant, overflow_checks, launched, fees>>

\* A purchase once the price is known: SOL from the payer to the sol vault,
\* tokens from the token vault to the payer, then update_reserves.
\* affordable is the handler's require! on the price.
Purchase(op, args, sol_amount, affordable, payer_lamports, amount) ==
  IF ~IsOk(sol_amount) THEN Rollback(op, args, sol_amount)
  ELSE IF ~affordable THEN Rollback(op, args, Err("InsufficientBalance"))
  ELSE \E sol \in {transfer(payer_lamports, sol_vault, sol_amount.val)},
          tok \in {transfer(token_vault, BN(0), amount)} :
         IF ~IsOk(sol) THEN Rollback(op, args, sol)
         ELSE IF ~IsOk(tok) THEN Rollback(op, args, tok)
         ELSE Settle(op, args,
                     Ok(as_i64(sol_amount.val)),
                     neg_i64(overflow_checks, as_i64(amount)),
                     sol.val[2], tok.val[1])

\* A sale once the price is known: tokens from the seller to the token
\* vault, SOL out of the sol vault, then update_reserves.
\* acceptable is the handler's require! on the price.
Sale(op, args, sol_amount, acceptable, seller_tokens, amount) ==
  IF ~IsOk(sol_amount) THEN Rollback(op, args, sol_amount)
  ELSE IF ~acceptable THEN Rollback(op, args, Err("InsufficientBalance"))
  ELSE \E tok \in {transfer(seller_tokens, token_vault, amount)},
          sol \in {checked_sub(Ok(sol_vault), sol_amount)} :
         IF ~IsOk(tok) THEN Rollback(op, args, tok)
         ELSE IF ~IsOk(sol) THEN Rollback(op, args, sol)
         ELSE Settle(op, args,
                     neg_i64(overflow_checks, as_i64(sol_amount.val)),
                     Ok(as_i64(amount)),
                     sol.val, tok.val[2])

\* gpt.rs: initialize_launch, on accounts that `init` creates.
InitializeLaunch(virtual_sol, virtual_token, curve_type, custom_params) ==
  /\ variant = "gpt"
  /\ ~launched
  /\ \E r \in {initialize(curve, curve_type, virtual_sol, virtual_token,
                          custom_params)},
        args \in {<<curve_type, virtual_sol, virtual_token, custom_params>>} :
       IF ~IsOk(r.res) THEN Rollback("initialize_launch", args, r.res)
       ELSE /\ curve' = r.self
            /\ launched' = TRUE
            /\ last' = Call("initialize_launch", args, Ok(Unit), "initialize")
            /\ UNCHANGED schedule_vars /\ UNCHANGED <<variant, overflow_checks, fees, sol_vault,
                           token_vault, updates>>

\* gpt.rs: buy_tokens, by a trader holding trader_lamports.
BuyTokens(trader_lamports, amount) ==
  /\ variant = "gpt"
  /\ launched
  /\ updates < MaxUpdates
  /\ \E sol_amount \in {calculate_buy_price(variant, overflow_checks, curve,
                                            amount)} :
       Purchase("buy_tokens", <<trader_lamports, amount>>, sol_amount,
                IsOk(sol_amount) /\ Leq(sol_amount.val, trader_lamports),
                trader_lamports, amount)

\* gpt.rs: sell_tokens, by a trader holding trader_tokens.
SellTokens(trader_tokens, amount) ==
  /\ variant = "gpt"
  /\ launched
  /\ updates < MaxUpdates
  /\ \E sol_amount \in {calculate_sell_price(variant, overflow_checks, curve,
                                             amount)} :
       Sale("sell_tokens", <<trader_tokens, amount>>, sol_amount,
            IsOk(sol_amount) /\ Leq(sol_amount.val, sol_vault),
            trader_tokens, amount)

\* buy as it would be without its require! on max_sol_cost.
BuyAtAnyCost(user_lamports, token_amount, max_sol_cost) ==
  /\ variant = "deepseek"
  /\ launched
  /\ updates < MaxUpdates
  /\ \E sol_amount \in {calculate_buy_price(variant, overflow_checks, curve,
                                            token_amount)} :
       Purchase("buy", <<user_lamports, token_amount, max_sol_cost>>,
                sol_amount, IsOk(sol_amount), user_lamports, token_amount)

\* deepseek.rs: buy, by a user holding user_lamports.
Buy(user_lamports, token_amount, max_sol_cost) ==
  /\ variant = "deepseek"
  /\ launched
  /\ updates < MaxUpdates
  /\ \E sol_amount \in {calculate_buy_price(variant, overflow_checks, curve,
                                            token_amount)} :
       Purchase("buy", <<user_lamports, token_amount, max_sol_cost>>,
                sol_amount,
                IsOk(sol_amount) /\ Leq(sol_amount.val, max_sol_cost),
                user_lamports, token_amount)

\* deepseek.rs: sell, by a user holding user_tokens.
Sell(user_tokens, token_amount, min_sol_output) ==
  /\ variant = "deepseek"
  /\ launched
  /\ updates < MaxUpdates
  /\ \E sol_amount \in {calculate_sell_price(variant, overflow_checks, curve,
                                             token_amount)} :
       Sale("sell", <<user_tokens, token_amount, min_sol_output>>,
            sol_amount,
            IsOk(sol_amount) /\ Leq(min_sol_output, sol_amount.val),
            user_tokens, token_amount)

\* withdraw as it would be without its require! on the signer.
WithdrawByAnyone(signer) ==
  /\ variant = "deepseek"
  /\ launched
  /\ \E sol \in {checked_sub(Ok(sol_vault), Ok(curve.real_sol_reserves))} :
       IF ~IsOk(sol) THEN Rollback("withdraw", <<signer>>, sol)
       ELSE /\ sol_vault' = sol.val
            /\ curve' = [curve EXCEPT !.real_sol_reserves = BN(0)]
            /\ last' = Call("withdraw", <<signer>>, Ok(Unit), "direct")
            /\ UNCHANGED schedule_vars /\ UNCHANGED <<variant, overflow_checks, launched, fees,
                           token_vault, updates>>

\* deepseek.rs: withdraw.  The whole of real_sol_reserves leaves the vault
\* and the field is set to zero by the handler.
Withdraw(signer) ==
  /\ variant = "deepseek"
  /\ launched
  /\ \E sol \in {checked_sub(Ok(sol_vault), Ok(curve.real_sol_reserves))} :
       IF signer # "authority"
       THEN Rollback("withdraw", <<signer>>, Err("UnauthorizedAccess"))
       ELSE IF ~IsOk(sol) THEN Rollback("withdraw", <<signer>>, sol)
       ELSE /\ sol_vault' = sol.val
            /\ curve' = [curve EXCEPT !.real_sol_reserves = BN(0)]
            /\ last' = Call("withdraw", <<signer>>, Ok(Unit), "direct")
            /\ UNCHANGED schedule_vars /\ UNCHANGED <<variant, overflow_checks, launched, fees,
                           token_vault, updates>>

\* The creator sends the tokens on sale to the token vault.
FundVault(amount) ==
  /\ variant \in {"gpt", "deepseek"}
  /\ launched
  /\ token_vault = BN(0)
  /\ token_vault' = amount
  /\ UNCHANGED schedule_vars /\ UNCHANGED <<variant, overflow_checks, curve, launched, fees, sol_vault,
                 updates, last>>

ProgramVirtualSol == {BN(0), BN(100)}
ProgramVirtualToken == {BN(0), BN(10)}
TradeAmounts == {BN(0), BN(1), BN(5)}
Holdings == {BN(0), BN(1000)}

ProgramNext ==
  \/ \E t \in CurveTypes, vs \in ProgramVirtualSol,
        vt \in ProgramVirtualToken :
        InitializeLaunch(vs, vt, t, <<BN(100), BN(200), BN(5000)>>)
  \/ \E sg \in Signers, vt \in ProgramVirtualToken,
        vs \in ProgramVirtualSol :
        SetParams(sg, "treasury", "treasury", vt, vs, vt, BN(100))
  \/ \E h \in Holdings, a \in TradeAmounts : BuyTokens(h, a)
  \/ \E h \in Holdings, a \in TradeAmounts : SellTokens(h, a)
  \/ \E h \in Holdings, a \in TradeAmounts, m \in Holdings : Buy(h, a, m)
  \/ \E h \in Holdings, a \in TradeAmounts, m \in {BN(0), BN(1)} :
        Sell(h, a, m)
  \/ \E sg \in Signers : Withdraw(sg)
  \/ FundVault(BN(10))

ProgramSpec == Init /\ [][ProgramNext]_vars

\* ------------------------------------------------------------------------
\* CustodySpec: the buy and sell instructions of gpt.rs and deepseek.rs alone,
\* on launches and trades whose amounts reach the top half of u64.
\* ------------------------------------------------------------------------

CustodyVirtualToken == {BN(10), I63}
CustodyAmounts == {BN(1), BN(5), U64_MAX}
CustodyHoldings == {BN(1000), U64_MAX}

CustodyNext ==
  \/ \E t \in CurveTypes, vt \in CustodyVirtualToken :
        InitializeLaunch(BN(1), vt, t, <<BN(100), BN(200), BN(5000)>>)
  \/ \E vt \in CustodyVirtualToken :
        SetParams("authority", "treasury", "treasury", vt, BN(1), vt, BN(100))
  \/ \E h \in CustodyHoldings, a \in CustodyAmounts : BuyTokens(h, a)
  \/ \E h \in CustodyHoldings, a \in CustodyAmounts : SellTokens(h, a)
  \/ \E h \in CustodyHoldings, a \in CustodyAmounts : Buy(h, a, U64_MAX)
  \/ \E h \in CustodyHoldings, a \in CustodyAmounts : Sell(h, a, BN(0))
  \/ \E f \in {BN(10), U64_MAX} : FundVault(f)

CustodySpec == Init /\ [][CustodyNext]_vars

\* ------------------------------------------------------------------------
\* ReserveSpec: buy_tokens and sell_tokens of gpt.rs from initialize_launch
\* on, on a curve whose prices reach the top half of u64.
\* ------------------------------------------------------------------------

ReserveVirtualSol == {BN(100), Add(I63, BN(2))}
ReserveAmounts == {BN(1), BN(2)}
ReserveHoldings == {BN(1000), U64_MAX}

ReserveNext ==
  \/ \E t \in CurveTypes, vs \in ReserveVirtualSol :
        InitializeLaunch(vs, BN(2), t, <<BN(100), BN(200), BN(5000)>>)
  \/ \E h \in ReserveHoldings, a \in ReserveAmounts : BuyTokens(h, a)
  \/ \E h \in ReserveHoldings, a \in ReserveAmounts : SellTokens(h, a)
  \/ FundVault(BN(2))

ReserveSpec == Init /\ [][ReserveNext]_vars

\* ------------------------------------------------------------------------
\* VestingSpec: the VestingConfig of deep.rs, set up once and then queried.
\* ------------------------------------------------------------------------

\* impl VestingConfig: initialize, the first call on the account `init` has
\* created.  A panic aborts the call and leaves the account as it was.
VestingInitialize(schedule_type, start_time, end_time, cliff_period, total_amount, milestones) ==
  /\ variant = "deep"
  /\ call.op = "none"
  /\ \E r \in {vesting_initialize(overflow_checks, vesting_config,
                                  schedule_type, start_time, end_time,
                                  cliff_period, total_amount, milestones)} :
       /\ vesting_config' = IF r.res = Abort THEN vesting_config ELSE r.self
       /\ call' = [op   |-> "initialize",
                   args |-> <<schedule_type, start_time, end_time,
                              cliff_period, total_amount, milestones>>,
                   res  |-> r.res,
                   pre  |-> vesting_config]
  /\ UNCHANGED <<variant, overflow_checks, curve_vars, stream_config, launch_curve, clock, vesting, vault,
                 vesting_token_account, vault_token_account, released>>

\* impl VestingConfig: calculate_vested_amount, on the config as it stands.
CalculateVestedAmount(current_time) ==
  /\ variant = "deep"
  /\ call.op # "none"
  /\ call' = [op   |-> "calculate_vested_amount",
              args |-> <<current_time>>,
              res  |-> calculate_vested_amount(overflow_checks, vesting_config,
                                               current_time),
              pre  |-> vesting_config]
  /\ UNCHANGED <<variant, overflow_checks, curve_vars, stream_config, launch_curve, vesting_config, clock,
                 vesting, vault, vesting_token_account, vault_token_account,
                 released>>

\* A non-negative time, and a milestone.
T(n) == I64(FALSE, BN(n))

Milestone(time, percentage, is_claimed) == [time |-> T(time), percentage |-> percentage, is_claimed |-> is_claimed]

\* The most milestones in a list handed to initialize.
MaxMilestones == 258

\* Milestone lists: one of 100 %, three of 33, 33 and 34 %, one of 50 %, two
\* of which the first is claimed, and a long one of 65636 % in all: 257 of
\* 255 %, one of 101 % and the rest of 0 %.
Whole == <<Milestone(100, 100, FALSE)>>

Thirds == <<Milestone(100, 33, FALSE), Milestone(200, 33, FALSE), Milestone(300, 34, FALSE)>>

Half == <<Milestone(100, 50, FALSE)>>

Claimed == <<Milestone(100, 60, TRUE), Milestone(200, 40, FALSE)>>

Wrapping == [i \in 1 .. MaxMilestones |-> Milestone(100, IF i < 258 THEN 255 ELSE IF i = 258 THEN 101 ELSE 0, FALSE)]

MilestoneLists == {<< >>, Whole, Thirds, Half, Claimed}

VestingStarts == {T(0), T(1)}
VestingEnds == {T(0), T(3), T(400), T(1000)}
VestingCliffs == {I64(TRUE, BN(1)), T(0), T(100), I64_MAX}
VestingTotals == {BN(0), BN(1), BN(10), BN(1000)}
VestingTimes == {T(0), T(1), T(100), T(150), T(300), T(450), T(500), T(1000), T(1001)}

\* The arguments of initialize: every combination of the values above, the
\* milestone lists going with CustomMilestone, and the long list once.
VestingSetups ==
  ((VestingScheduleTypes \ {"CustomMilestone"}) \X VestingStarts \X VestingEnds \X VestingCliffs \X VestingTotals \X {<< >>})
  \cup ({"CustomMilestone"} \X VestingStarts \X VestingEnds \X VestingCliffs \X VestingTotals \X MilestoneLists)
  \cup {<<"CustomMilestone", T(0), T(1000), T(0), BN(1000), Wrapping>>}

VestingNext ==
  \/ \E a \in VestingSetups :
        VestingInitialize(a[1], a[2], a[3], a[4], a[5], a[6])
  \/ \E t \in VestingTimes : CalculateVestedAmount(t)

VestingSpec == Init /\ [][VestingNext]_vars

\* ------------------------------------------------------------------------
\* The vault and vesting instructions of src/lib.rs ("lib") and of
\* src/src/lib.rs ("src_lib").  v names the file, self the account.
\* ------------------------------------------------------------------------

\* pub const SECONDS_IN_DAY, MINIMUM_VESTING_PERIOD, MAXIMUM_VESTING_PERIOD,
\* MINIMUM_AMOUNT
SECONDS_IN_DAY == 86400
MINIMUM_VESTING_PERIOD == SECONDS_IN_DAY * 7
MAXIMUM_VESTING_PERIOD == SECONDS_IN_DAY * 365 * 2
MINIMUM_AMOUNT == 1

\* d >= MINIMUM_VESTING_PERIOD && d <= MAXIMUM_VESTING_PERIOD
within_vesting_period(d) ==
  /\ ~i64_lt(d, I64(FALSE, BN(MINIMUM_VESTING_PERIOD)))
  /\ ~i64_lt(I64(FALSE, BN(MAXIMUM_VESTING_PERIOD)), d)

\* The Vesting account as initialize_vesting writes it.
NewVesting(amount, start_time, end_time, target_market_cap) == [created |-> TRUE, amount |-> amount, start_time |-> start_time, end_time |-> end_time, target_market_cap |-> target_market_cap, is_locked |-> TRUE]

\* pub fn initialize_vesting: the outcome and the account it leaves.
\* src/src/lib.rs writes the fields without any require!.
initialize_vesting(v, self, current_time, amount, start_time, end_time, target_market_cap) ==
  LET vesting_duration == i64_checked_sub(end_time, start_time)
      refused(e) == [res |-> e, self |-> self]
  IN  IF v = "src_lib"
      THEN [res |-> Ok(Unit), self |-> NewVesting(amount, start_time, end_time, target_market_cap)]
      ELSE IF ~Lt(BN(MINIMUM_AMOUNT), amount)
      THEN refused(Err("InvalidVestingAmount"))
      ELSE IF ~i64_lt(start_time, end_time)
      THEN refused(Err("InvalidTimeParameters"))
      ELSE IF ~i64_lt(current_time, start_time)
      THEN refused(Err("InvalidTimeParameters"))
      ELSE IF ~IsOk(vesting_duration) THEN refused(vesting_duration)
      ELSE IF ~within_vesting_period(vesting_duration.val)
      THEN refused(Err("InvalidTimeParameters"))
      ELSE [res |-> Ok(Unit), self |-> NewVesting(amount, start_time, end_time, target_market_cap)]

\* pub fn lock_tokens_for_vesting: the outcome and the tokens the vesting
\* token account holds afterwards.  Only src/lib.rs asks for is_locked.
lock_tokens_for_vesting(v, self, owner_tokens, vesting_tokens, amount) ==
  IF amount # self.amount
  THEN [res |-> Err("InvalidVestingAmount"), tokens |-> vesting_tokens]
  ELSE IF v = "lib" /\ ~self.is_locked
  THEN [res |-> Err("TokensAlreadyUnlocked"), tokens |-> vesting_tokens]
  ELSE LET moved == transfer(owner_tokens, vesting_tokens, amount)
       IN  IF ~IsOk(moved) THEN [res |-> moved, tokens |-> vesting_tokens]
           ELSE [res |-> Ok(Unit), tokens |-> moved.val[2]]

\* unlock_vested_tokens without the require! on is_locked.
unlock_vested_tokens_again(self, current_time, current_market_cap, vesting_tokens) ==
  LET refused(e) == [res |-> e, self |-> self, tokens |-> vesting_tokens, sent |-> BN(0)]
      moved      == transfer(vesting_tokens, BN(0), self.amount)
  IN  IF i64_lt(current_time, self.end_time)
      THEN refused(Err("VestingPeriodNotEnded"))
      ELSE IF Lt(current_market_cap, self.target_market_cap)
      THEN refused(Err("MarketCapNotReached"))
      ELSE IF ~IsOk(moved) THEN refused(moved)
      ELSE [res |-> Ok(Unit), self |-> [self EXCEPT !.is_locked = FALSE], tokens |-> moved.val[1], sent |-> self.amount]

\* unlock_vested_tokens without the require! on the market cap.
unlock_vested_tokens_any_cap(self, current_time, current_market_cap, vesting_tokens) ==
  LET refused(e) == [res |-> e, self |-> self, tokens |-> vesting_tokens, sent |-> BN(0)]
      moved      == transfer(vesting_tokens, BN(0), self.amount)
  IN  IF ~self.is_locked THEN refused(Err("TokensAlreadyUnlocked"))
      ELSE IF i64_lt(current_time, self.end_time)
      THEN refused(Err("VestingPeriodNotEnded"))
      ELSE IF ~IsOk(moved) THEN refused(moved)
      ELSE [res |-> Ok(Unit), self |-> [self EXCEPT !.is_locked = FALSE], tokens |-> moved.val[1], sent |-> self.amount]

\* pub fn unlock_vested_tokens, the same in both files: the outcome, the
\* account, the tokens left in the vesting token account and the tokens sent
\* to the owner.
unlock_vested_tokens(self, current_time, current_market_cap, vesting_tokens) ==
  LET refused(e) == [res |-> e, self |-> self, tokens |-> vesting_tokens, sent |-> BN(0)]
      moved      == transfer(vesting_tokens, BN(0), self.amount)
  IN  IF ~self.is_locked THEN refused(Err("TokensAlreadyUnlocked"))
      ELSE IF i64_lt(current_time, self.end_time)
      THEN refused(Err("VestingPeriodNotEnded"))
      ELSE IF Lt(current_market_cap, self.target_market_cap)
      THEN refused(Err("MarketCapNotReached"))
      ELSE IF ~IsOk(moved) THEN refused(moved)
      ELSE [res |-> Ok(Unit), self |-> [self EXCEPT !.is_locked = FALSE], tokens |-> moved.val[1], sent |-> self.amount]

\* pub fn lock_tokens: the outcome, the vault and the tokens the vault token
\* account holds afterwards.  src/src/lib.rs has no require! and adds the
\* duration to the time with `+`.
lock_tokens(v, oc, self, current_time, user_tokens, vault_tokens, amount, lock_duration) ==
  LET refused(e)  == [res |-> e, self |-> self, tokens |-> vault_tokens]
      unlock_time == IF v = "lib" THEN i64_checked_add(current_time, lock_duration)
                     ELSE i64_add(oc, current_time, lock_duration)
      moved       == transfer(user_tokens, vault_tokens, amount)
  IN  IF v = "lib" /\ ~Lt(BN(MINIMUM_AMOUNT), amount)
      THEN refused(Err("InvalidAmount"))
      ELSE IF v = "lib" /\ ~within_vesting_period(lock_duration)
      THEN refused(Err("InvalidTimeParameters"))
      ELSE IF ~IsOk(unlock_time) THEN refused(unlock_time)
      ELSE IF ~IsOk(moved) THEN refused(moved)
      ELSE [res |-> Ok(Unit), self |-> [locked_amount |-> amount, locked_until |-> unlock_time.val], tokens |-> moved.val[2]]

\* pub fn unlock_tokens.  Only src/lib.rs asks for locked_amount > 0.
unlock_tokens(v, self, current_time, vault_tokens) ==
  LET refused(e) == [res |-> e, self |-> self, tokens |-> vault_tokens]
      moved      == transfer(vault_tokens, BN(0), self.locked_amount)
  IN  IF i64_lt(current_time, self.locked_until)
      THEN refused(Err("TokensStillLocked"))
      ELSE IF v = "lib" /\ self.locked_amount = BN(0)
      THEN refused(Err("InsufficientBalance"))
      ELSE IF ~IsOk(moved) THEN refused(moved)
      ELSE [res |-> Ok(Unit), self |-> [self EXCEPT !.locked_amount = BN(0)], tokens |-> moved.val[1]]

\* ------------------------------------------------------------------------
\* The launch of src/src/lib.rs: the Curve of state/curve.rs (total_supply,
\* reserve_token, reserve_sol), priced by utils/curve_calculations.rs.
\* ------------------------------------------------------------------------

\* `a + b` and `a - b` on u64: a result outside u64 panics with overflow
\* checks and wraps without.
u64_add(oc, a, b) ==
  LET s == Add(a, b)
  IN  IF Lt(s, U64) THEN Ok(s) ELSE IF oc THEN Abort ELSE Ok(Sub(s, U64))

u64_sub(oc, a, b) ==
  IF Leq(b, a) THEN Ok(Sub(a, b))
  ELSE IF oc THEN Abort
  ELSE Ok(Sub(Add(a, U64), b))

\* pub fn initialize_launch
initialize_launch(total_supply, curve_type, custom_params) ==
  [created |-> TRUE, total_supply |-> total_supply,
   reserve_token |-> total_supply, reserve_sol |-> BN(0),
   curve_type |-> curve_type, custom_params |-> custom_params]

\* calculate_tokens_out and calculate_sol_out: curve_type 0 is the linear
\* curve, 1 to 5 are unimplemented!(), any other is an error.
calculate_tokens_out(oc, c, sol_amount) ==
  IF c.curve_type = 0
  THEN div(u64_mul(oc, Ok(sol_amount), Ok(c.total_supply)), Ok(c.reserve_sol))
  ELSE IF c.curve_type \in 1 .. 5 THEN Abort
  ELSE Err("InvalidInstructionData")

calculate_sol_out(oc, c, token_amount) ==
  IF c.curve_type = 0
  THEN div(u64_mul(oc, Ok(token_amount), Ok(c.reserve_sol)), Ok(c.total_supply))
  ELSE IF c.curve_type \in 1 .. 5 THEN Abort
  ELSE Err("InvalidInstructionData")

\* pub fn buy_tokens: the outcome and, when it is Ok, the curve and the two
\* vaults the call leaves behind.
buy_tokens(oc, c, buyer_lamports, sol, tokens, amount) ==
  LET refused(e)    == [res |-> e, curve |-> c, sol_vault |-> sol, token_vault |-> tokens]
      tokens_out    == calculate_tokens_out(oc, c, amount)
      paid          == transfer(buyer_lamports, sol, amount)
      sent          == transfer(tokens, BN(0), tokens_out.val)
      reserve_token == u64_sub(oc, c.reserve_token, tokens_out.val)
      reserve_sol   == u64_add(oc, c.reserve_sol, amount)
  IN  IF ~IsOk(tokens_out) THEN refused(tokens_out)
      ELSE IF ~IsOk(paid) THEN refused(paid)
      ELSE IF ~IsOk(sent) THEN refused(sent)
      ELSE IF ~IsOk(reserve_token) THEN refused(reserve_token)
      ELSE IF ~IsOk(reserve_sol) THEN refused(reserve_sol)
      ELSE [res |-> Ok(Unit), curve |-> [c EXCEPT !.reserve_token = reserve_token.val, !.reserve_sol = reserve_sol.val], sol_vault |-> paid.val[2], token_vault |-> sent.val[1]]

\* pub fn sell_tokens
sell_tokens(oc, c, seller_tokens, sol, tokens, amount) ==
  LET refused(e)    == [res |-> e, curve |-> c, sol_vault |-> sol, token_vault |-> tokens]
      sol_out       == calculate_sol_out(oc, c, amount)
      sent          == transfer(seller_tokens, tokens, amount)
      paid          == transfer(sol, BN(0), sol_out.val)
      reserve_token == u64_add(oc, c.reserve_token, amount)
      reserve_sol   == u64_sub(oc, c.reserve_sol, sol_out.val)
  IN  IF ~IsOk(sol_out) THEN refused(sol_out)
      ELSE IF ~IsOk(sent) THEN refused(sent)
      ELSE IF ~IsOk(paid) THEN refused(paid)
      ELSE IF ~IsOk(reserve_token) THEN refused(reserve_token)
      ELSE IF ~IsOk(reserve_sol) THEN refused(reserve_sol)
      ELSE [res |-> Ok(Unit), curve |-> [c EXCEPT !.reserve_token = reserve_token.val, !.reserve_sol = reserve_sol.val], sol_vault |-> paid.val[1], token_vault |-> sent.val[2]]

\* The record of a call on the vault or the vesting account.
LockCall(op, args, res) == [op |-> op, args |-> args, res |-> res, pre |-> [vesting |-> vesting, vault |-> vault, vesting_token_account |-> vesting_token_account, vault_token_account |-> vault_token_account, released |-> released, clock |-> clock]]

Libs == {"lib", "src_lib"}

\* The most deposits of the vested amount, and the most tokens in the vault
\* token account before a further lock.
MaxDeposits == 2
MaxVaultTokens == 3

InitializeVesting(amount, start_time, end_time, target_market_cap) ==
  /\ variant \in Libs
  /\ ~vesting.created
  /\ \E r \in {initialize_vesting(variant, vesting, clock, amount, start_time,
                                  end_time, target_market_cap)} :
       /\ vesting' = r.self
       /\ call' = LockCall("initialize_vesting",
                           <<amount, start_time, end_time, target_market_cap>>,
                           r.res)
  /\ UNCHANGED <<variant, overflow_checks, curve_vars, stream_config, launch_curve, vesting_config, clock,
                 vault, vesting_token_account, vault_token_account, released>>

LockTokensForVesting(owner_tokens, amount) ==
  /\ variant \in Libs
  /\ vesting.created
  /\ Lt(vesting_token_account, MulSmall(vesting.amount, MaxDeposits))
  /\ \E r \in {lock_tokens_for_vesting(variant, vesting, owner_tokens,
                                       vesting_token_account, amount)} :
       /\ vesting_token_account' = r.tokens
       /\ call' = LockCall("lock_tokens_for_vesting", <<owner_tokens, amount>>,
                           r.res)
  /\ UNCHANGED <<variant, overflow_checks, curve_vars, stream_config, launch_curve, vesting_config, clock,
                 vesting, vault, vault_token_account, released>>

UnlockVestedTokens(current_market_cap) ==
  /\ variant \in Libs
  /\ vesting.created
  /\ \E r \in {unlock_vested_tokens(vesting, clock, current_market_cap,
                                    vesting_token_account)} :
       /\ vesting' = r.self
       /\ vesting_token_account' = r.tokens
       /\ released' = Add(released, r.sent)
       /\ call' = LockCall("unlock_vested_tokens", <<current_market_cap>>,
                           r.res)
  /\ UNCHANGED <<variant, overflow_checks, curve_vars, stream_config, launch_curve, vesting_config, clock,
                 vault, vault_token_account>>

LockTokens(user_tokens, amount, lock_duration) ==
  /\ variant \in Libs
  /\ Lt(vault_token_account, BN(MaxVaultTokens))
  /\ \E r \in {lock_tokens(variant, overflow_checks, vault, clock, user_tokens,
                           vault_token_account, amount, lock_duration)} :
       /\ vault' = r.self
       /\ vault_token_account' = r.tokens
       /\ call' = LockCall("lock_tokens", <<user_tokens, amount, lock_duration>>,
                           r.res)
  /\ UNCHANGED <<variant, overflow_checks, curve_vars, stream_config, launch_curve, vesting_config, clock,
                 vesting, vesting_token_account, released>>

UnlockTokens ==
  /\ variant \in Libs
  /\ \E r \in {unlock_tokens(variant, vault, clock, vault_token_account)} :
       /\ vault' = r.self
       /\ vault_token_account' = r.tokens
       /\ call' = LockCall("unlock_tokens", << >>, r.res)
  /\ UNCHANGED <<variant, overflow_checks, curve_vars, stream_config, launch_curve, vesting_config, clock,
                 vesting, vesting_token_account, released>>

\* Time passes: the clock moves on to t.
Tick(t) ==
  /\ variant \in Libs
  /\ i64_lt(clock, t)
  /\ clock' = t
  /\ UNCHANGED <<variant, overflow_checks, curve_vars, stream_config, launch_curve, vesting_config, vesting,
                 vault, vesting_token_account, vault_token_account, released,
                 call>>

\* The start of the schedules tried, and the times and durations around the
\* two limits.
LockStart == 1000

LockAmounts == {BN(1), BN(2)}
LockStarts == {T(0), T(LockStart)}
LockEnds == {T(LockStart), T(LockStart + MINIMUM_VESTING_PERIOD - 1), T(LockStart + MINIMUM_VESTING_PERIOD), T(LockStart + MAXIMUM_VESTING_PERIOD), T(LockStart + MAXIMUM_VESTING_PERIOD + 1)}
LockDurations == {I64(TRUE, BN(1)), T(MINIMUM_VESTING_PERIOD - 1), T(MINIMUM_VESTING_PERIOD), T(MAXIMUM_VESTING_PERIOD), T(MAXIMUM_VESTING_PERIOD + 1), I64_MAX}
LockTimes == {T(1), T(LockStart + MINIMUM_VESTING_PERIOD), T(LockStart + MAXIMUM_VESTING_PERIOD + 1)}
MarketCaps == {BN(49), BN(50)}

\* ScheduleSpec: a Vesting account from its creation to its release.
ScheduleNext ==
  \/ \E a \in LockAmounts, s \in LockStarts, e \in LockEnds :
        InitializeVesting(a, s, e, BN(50))
  \/ \E a \in LockAmounts : LockTokensForVesting(BN(1000), a)
  \/ \E c \in MarketCaps : UnlockVestedTokens(c)
  \/ \E t \in LockTimes : Tick(t)

ScheduleSpec == Init /\ [][ScheduleNext]_vars

\* LockSpec: the locks of a Vault.
LockNext ==
  \/ \E a \in LockAmounts, d \in LockDurations : LockTokens(BN(1000), a, d)
  \/ UnlockTokens
  \/ \E t \in LockTimes : Tick(t)

LockSpec == Init /\ [][LockNext]_vars

\* ------------------------------------------------------------------------
\* StreamSpec: a StreamConfig of deep.rs, created once, then checkpointed.
\* ------------------------------------------------------------------------

\* initialize at the time now, on the account `init` has created.
StreamInitialize(stream_type, rate, interval, now) ==
  /\ variant = "deep"
  /\ ~stream_config.created
  /\ \E r \in {stream_initialize(stream_config, now, stream_type, rate,
                                 interval)} :
       /\ stream_config' = r.self
       /\ call' = [op   |-> "stream_initialize",
                   args |-> <<stream_type, rate, interval, now>>,
                   res  |-> r.res,
                   pre  |-> stream_config]
  /\ UNCHANGED <<variant, overflow_checks, curve_vars, launch_curve, vesting_config, clock,
                 vesting, vault, vesting_token_account, vault_token_account,
                 released>>

\* checkpoint at the time now.
Checkpoint(now) ==
  /\ variant = "deep"
  /\ stream_config.created
  /\ \E r \in {checkpoint(stream_config, now)} :
       /\ stream_config' = r.self
       /\ call' = [op   |-> "checkpoint",
                   args |-> <<now>>,
                   res  |-> r.res,
                   pre  |-> stream_config]
  /\ UNCHANGED <<variant, overflow_checks, curve_vars, launch_curve, vesting_config, clock,
                 vesting, vault, vesting_token_account, vault_token_account,
                 released>>

StreamRates == {BN(0), BN(1), BN(3), U64_MAX}
StreamIntervals == {T(0), T(1), T(2), T(7), I64(TRUE, BN(2))}
StreamTimes == {I64(TRUE, BN(1)), T(0), T(1), T(3), T(4), T(10), T(15), I64_MAX}

StreamNext ==
  \/ \E k \in StreamTypes, r \in StreamRates, i \in StreamIntervals,
        t \in {T(0), T(1)} :
        StreamInitialize(k, r, i, t)
  \/ \E t \in StreamTimes : Checkpoint(t)

StreamSpec == Init /\ [][StreamNext]_vars

\* ------------------------------------------------------------------------
\* LaunchSpec: the launch of src/src/lib.rs, created once, then traded.
\* ------------------------------------------------------------------------

\* The record of a call on the launch.
LaunchCall(op, args, res) == [op |-> op, args |-> args, res |-> res, pre |-> launch_curve]

\* initialize_launch, on the account `init` creates.
LaunchInitialize(total_supply, curve_type, custom_params) ==
  /\ variant = "src_lib"
  /\ ~launch_curve.created
  /\ launch_curve' = initialize_launch(total_supply, curve_type, custom_params)
  /\ call' = LaunchCall("initialize_launch", <<total_supply, curve_type>>, Ok(Unit))
  /\ UNCHANGED <<variant, overflow_checks, curve, launched, fees, sol_vault, token_vault, updates, last, vesting_config, clock, vesting, vault, vesting_token_account, vault_token_account, released, stream_config>>

\* buy_tokens, by a buyer holding buyer_lamports.
LaunchBuyTokens(buyer_lamports, amount) ==
  /\ variant = "src_lib"
  /\ launch_curve.created
  /\ updates < MaxUpdates
  /\ \E r \in {buy_tokens(overflow_checks, launch_curve, buyer_lamports, sol_vault, token_vault, amount)} :
       /\ launch_curve' = r.curve
       /\ sol_vault' = r.sol_vault
       /\ token_vault' = r.token_vault
       /\ updates' = IF IsOk(r.res) THEN updates + 1 ELSE updates
       /\ call' = LaunchCall("buy_tokens", <<buyer_lamports, amount>>, r.res)
  /\ UNCHANGED <<variant, overflow_checks, curve, launched, fees, last, vesting_config, clock, vesting, vault, vesting_token_account, vault_token_account, released, stream_config>>

\* sell_tokens, by a seller holding seller_tokens.
LaunchSellTokens(seller_tokens, amount) ==
  /\ variant = "src_lib"
  /\ launch_curve.created
  /\ updates < MaxUpdates
  /\ \E r \in {sell_tokens(overflow_checks, launch_curve, seller_tokens, sol_vault, token_vault, amount)} :
       /\ launch_curve' = r.curve
       /\ sol_vault' = r.sol_vault
       /\ token_vault' = r.token_vault
       /\ updates' = IF IsOk(r.res) THEN updates + 1 ELSE updates
       /\ call' = LaunchCall("sell_tokens", <<seller_tokens, amount>>, r.res)
  /\ UNCHANGED <<variant, overflow_checks, curve, launched, fees, last, vesting_config, clock, vesting, vault, vesting_token_account, vault_token_account, released, stream_config>>

LaunchSupplies == {BN(0), BN(1), BN(1000), U64_MAX}
LaunchCurveTypes == {0, 1, 6}
LaunchAmounts == {BN(0), BN(1), BN(10), U64_MAX}
LaunchHoldings == {BN(0), BN(10), U64_MAX}

LaunchNext ==
  \/ \E s \in LaunchSupplies, t \in LaunchCurveTypes :
        LaunchInitialize(s, t, <<BN(0), BN(0), BN(0)>>)
  \/ \E h \in LaunchHoldings, a \in LaunchAmounts : LaunchBuyTokens(h, a)
  \/ \E h \in LaunchHoldings, a \in LaunchAmounts : LaunchSellTokens(h, a)

LaunchSpec == Init /\ [][LaunchNext]_vars

\* ------------------------------------------------------------------------
\* Properties
\* ------------------------------------------------------------------------

Zero == I64(FALSE, BN(0))

IsQuote == last.op \in {"calculate_buy_price", "calculate_sell_price"}

Positive(self) ==
  self.virtual_sol_reserves # BN(0) /\ self.virtual_token_reserves # BN(0)

\* C1, as the code has it: a successful Curve::initialize leaves the real SOL
\* reserve at zero, the real token reserve at virtual_token and the snapshot
\* initial_virtual_token_reserves at virtual_token; the virtual reserves, the
\* kind and the parameters are the arguments.
C1_InitializeSetsTokenSide ==
  (last.op = "initialize" /\ IsOk(last.res)) =>
    /\ curve.real_sol_reserves = BN(0)
    /\ curve.real_token_reserves = last.args[3]
    /\ curve.initial_virtual_token_reserves = last.args[3]
    /\ curve.virtual_sol_reserves = last.args[2]
    /\ curve.virtual_token_reserves = last.args[3]
    /\ curve.curve_type = last.args[1]
    /\ curve.custom_params = last.args[4]

\* A curve initialized with virtual_sol = 1 and virtual_token = u64::MAX.
C1_Witness ==
  /\ last.op = "initialize"
  /\ IsOk(last.res)
  /\ last.args[2] = BN(1)
  /\ last.args[3] = U64_MAX
  /\ curve.real_token_reserves = U64_MAX
  /\ curve.real_sol_reserves = BN(0)

\* C1 as the claim words it: after a successful initialize the real quote
\* (SOL) reserve is virtual_quote, the real base (token) reserve is zero and
\* the snapshot holds virtual_quote.
C1_AsClaimed ==
  (last.op = "initialize" /\ IsOk(last.res)) =>
    /\ curve.real_sol_reserves = last.args[2]
    /\ curve.real_token_reserves = BN(0)
    /\ curve.initial_virtual_token_reserves = last.args[2]

\* C2: initialize with a zero virtual reserve fails with
\* InvalidCurveParameters and changes no field, and every curve that has been
\* set up has both virtual reserves above zero.
C2_PositiveVirtualReserves ==
  /\ (last.op = "initialize"
        /\ (last.args[2] = BN(0) \/ last.args[3] = BN(0))) =>
       (last.res = Err("InvalidCurveParameters") /\ curve = last.pre)
  /\ launched => Positive(curve)

\* C10: an update_reserves that fails with CalculationError has changed
\* neither the real SOL reserve nor the real token reserve.
C10_FailedUpdateChangesNothing ==
  (last.op = "update_reserves" /\ last.res = Err("CalculationError")) =>
    /\ curve.real_sol_reserves = last.pre.real_sol_reserves
    /\ curve.real_token_reserves = last.pre.real_token_reserves

\* The step: update_reserves(-d, 0) right after a successful
\* update_reserves(+d, 0), for a d that is an i64 (0 <= d < 2^63).
RoundTripStep ==
  /\ last.op = "update_reserves"
  /\ IsOk(last.res)
  /\ ~last.args[1].neg
  /\ last.args[2] = Zero
  /\ updates' = updates + 1
  /\ last'.op = "update_reserves"
  /\ last'.args = <<I64(TRUE, last.args[1].mag), Zero>>

\* update_reserves(-d, 0) was called with d an i64 greater than the real SOL
\* reserve.
Overdraw ==
  /\ last.op = "update_reserves"
  /\ last.args[1].neg
  /\ Lt(last.args[1].mag, I63)
  /\ last.args[2] = Zero
  /\ Lt(last.pre.real_sol_reserves, last.args[1].mag)

\* C8: update_reserves(-d, 0) right after a successful update_reserves(+d, 0)
\* succeeds and puts the real SOL reserve back to what it was before the two
\* calls; and update_reserves(-d, 0) with d greater than the real SOL reserve
\* fails with CalculationError, the reserves left as they were.
C8_RoundTrip ==
  /\ [][RoundTripStep =>
          /\ IsOk(last'.res)
          /\ curve'.real_sol_reserves = last.pre.real_sol_reserves
          /\ curve'.real_token_reserves = last.pre.real_token_reserves]_vars
  /\ [](Overdraw => (last.res = Err("CalculationError") /\ curve = last.pre))

\* update_reserves(+1, 0) and then update_reserves(-1, 0) have run on a
\* fresh curve.
C8_Witness ==
  /\ updates = 2
  /\ last.op = "update_reserves"
  /\ last.args = <<I64(TRUE, BN(1)), Zero>>
  /\ IsOk(last.res)
  /\ last.pre.real_sol_reserves = BN(1)
  /\ curve.real_sol_reserves = BN(0)

\* C3: on a curve with positive virtual reserves a quote for amount 0 fails
\* with InvalidAmount.
C3_ZeroAmountIsInvalid ==
  (IsQuote /\ Positive(curve) /\ last.args[1] = BN(0)) =>
    last.res = Err("InvalidAmount")

\* C4: a successful calculate_sell_price for an amount above zero returns at
\* most the real SOL reserve.
C4_SellPriceWithinReserve ==
  (last.op = "calculate_sell_price" /\ last.args[1] # BN(0) /\ IsOk(last.res))
    => Leq(last.res.val, curve.real_sol_reserves)

\* The documented prices, over unbounded integers with floor division.
\* def is FALSE where the formula has no value: a zero divisor, or a
\* surcharge above the base price on the sell side.
documented_base(self, amt) ==
  Div(Mul(self.virtual_sol_reserves, amt), self.virtual_token_reserves)

documented_surcharge(self, amt) ==
  CASE self.curve_type = "Linear" ->
         [def |-> TRUE,
          val |-> Div(Mul(amt, self.custom_params[1]), BN(BASIS_POINTS))]
    [] self.curve_type = "Exponential" ->
         LET e == Div(Mul(amt, self.custom_params[2]), BN(BASIS_POINTS))
         IN  [def |-> TRUE, val |-> Mul(e, e)]
    [] self.curve_type = "Custom" ->
         IF self.custom_params[3] = BN(0) THEN [def |-> FALSE, val |-> BN(0)]
         ELSE [def |-> TRUE,
               val |-> Div(Mul(Mul(amt, self.custom_params[1]),
                               self.custom_params[2]),
                           Mul(self.custom_params[3], BN(BASIS_POINTS)))]

documented_sigmoid(self, amt) ==
  LET x == Div(Mul(amt, BN(BASIS_POINTS)), self.virtual_token_reserves)
      m == self.custom_params[3]
  IN  IF Add(x, m) = BN(0) THEN [def |-> FALSE, val |-> BN(0)]
      ELSE LET sig == Div(Mul(x, BN(BASIS_POINTS)), Add(x, m))
           IN  [def |-> TRUE,
                val |-> Div(Mul(Mul(self.virtual_sol_reserves, amt), sig),
                            Mul(self.virtual_token_reserves,
                                BN(BASIS_POINTS)))]

documented_buy_price(self, amt) ==
  IF self.curve_type = "Sigmoid" THEN documented_sigmoid(self, amt)
  ELSE LET s == documented_surcharge(self, amt)
       IN  IF ~s.def THEN s
           ELSE [def |-> TRUE, val |-> Add(documented_base(self, amt), s.val)]

documented_clamp(self, p) ==
  IF ~p.def \/ Leq(p.val, self.real_sol_reserves) THEN p
  ELSE [def |-> TRUE, val |-> self.real_sol_reserves]

documented_sell_price(self, amt) ==
  IF self.curve_type = "Sigmoid"
  THEN documented_clamp(self, documented_sigmoid(self, amt))
  ELSE LET s == documented_surcharge(self, amt)
           b == documented_base(self, amt)
       IN  IF ~s.def THEN s
           ELSE IF Lt(b, s.val) THEN [def |-> FALSE, val |-> BN(0)]
           ELSE documented_clamp(self, [def |-> TRUE, val |-> Sub(b, s.val)])

documented_price ==
  IF last.op = "calculate_buy_price"
  THEN documented_buy_price(curve, last.args[1])
  ELSE documented_sell_price(curve, last.args[1])

\* A quote of deep.rs or gpt.rs for an amount above zero.
IsPricedQuote ==
  /\ IsQuote
  /\ variant \in {"deep", "gpt"}
  /\ Positive(curve)
  /\ last.args[1] # BN(0)

\* C5: on a Linear curve a buy price that is returned is
\* floor(virtual_sol * amount / virtual_token) + floor(amount * slope / 10000);
\* with virtual_token = 1_000_000, virtual_sol = 100_000_000, slope = 0 and
\* amount = 10_000 the price 1_000_000 is returned.
C5_LinearBuyPrice ==
  (IsPricedQuote /\ last.op = "calculate_buy_price"
     /\ curve.curve_type = "Linear") =>
    /\ IsOk(last.res) => last.res.val = documented_buy_price(curve, last.args[1]).val
    /\ (/\ curve.virtual_token_reserves = BN(1000000)
        /\ curve.virtual_sol_reserves = BN(100000000)
        /\ curve.custom_params[1] = BN(0)
        /\ last.args[1] = BN(10000)) => last.res = Ok(BN(1000000))

\* C6: a quote returns the documented price, which fits 64 bits, or fails
\* with CalculationError; it returns nothing else and does not abort.
C6_ExactOrCalculationError ==
  IsPricedQuote =>
    \/ last.res = Err("CalculationError")
    \/ /\ documented_price.def
       /\ Lt(documented_price.val, U64)
       /\ last.res = Ok(documented_price.val)

\* The quote divides by zero: a Sigmoid quote with x + midpoint = 0, or a
\* Custom quote with midpoint = 0.
ZeroDivisor ==
  \/ /\ curve.curve_type = "Sigmoid"
     /\ curve.custom_params[3] = BN(0)
     /\ Div(Mul(last.args[1], BN(BASIS_POINTS)),
            curve.virtual_token_reserves) = BN(0)
  \/ /\ curve.curve_type = "Custom"
     /\ curve.custom_params[3] = BN(0)

\* C7: a quote whose divisor is zero fails with CalculationError.
C7_ZeroDivisorIsCalculationError ==
  (IsPricedQuote /\ ZeroDivisor) => last.res = Err("CalculationError")

\* C9: once the curve is set up, a call that changes a real reserve has
\* written it inside update_reserves.
C9_ReservesChangeOnlyInUpdateReserves ==
  (/\ last.was_launched
   /\ \/ curve.real_sol_reserves # last.pre.real_sol_reserves
      \/ curve.real_token_reserves # last.pre.real_token_reserves)
    => last.wrote = "update_reserves"

\* C11: after a committed buy the SOL reserve has grown by the price that
\* was transferred and the token reserve has shrunk by the amount bought;
\* after a committed sell the SOL reserve has shrunk by the price paid out
\* and the token reserve has grown by the amount sold, for every amount of
\* u64, those from 2^63 on included.
IsCommittedBuy == last.op \in {"buy_tokens", "buy"} /\ last.wrote = "update_reserves"

IsCommittedSell == last.op \in {"sell_tokens", "sell"} /\ last.wrote = "update_reserves"

\* The token amount of the trade: the second entry of the recorded arguments.
TradedAmount == last.args[2]

C11_AccountingMatchesCustody ==
  /\ IsCommittedBuy =>
       \E q \in {calculate_buy_price(variant, overflow_checks, last.pre,
                                     TradedAmount)} :
         /\ curve.real_sol_reserves = Add(last.pre.real_sol_reserves, q.val)
         /\ Add(curve.real_token_reserves, TradedAmount)
              = last.pre.real_token_reserves
  /\ IsCommittedSell =>
       \E q \in {calculate_sell_price(variant, overflow_checks, last.pre,
                                      TradedAmount)} :
         /\ Add(curve.real_sol_reserves, q.val) = last.pre.real_sol_reserves
         /\ curve.real_token_reserves
              = Add(last.pre.real_token_reserves, TradedAmount)

\* The arguments of the last call of VestingConfig::initialize.
IsInitialize == call.op = "initialize"

BadTimes == ~i64_lt(call.args[2], call.args[3]) \/ call.args[4].neg

\* The percentages of the milestones handed to initialize, added up exactly.
PercentagesGiven == percentage_sum(call.args[6], 1, Len(call.args[6]))

\* C12: initialize fails with InvalidTimeParameters when end_time <=
\* start_time or cliff_period < 0, else with InvalidAmount when total_amount
\* is 0, and a CustomMilestone schedule that passes both is accepted only with
\* a non-empty milestone list whose percentages add up to exactly 100, and
\* fails with InvalidMilestone otherwise.
C12_InitializeValidates ==
  IsInitialize =>
    /\ BadTimes => call.res = Err("InvalidTimeParameters")
    /\ ~BadTimes /\ call.args[5] = << >> => call.res = Err("InvalidAmount")
    /\ ~BadTimes /\ call.args[5] # << >> /\ call.args[1] = "CustomMilestone" =>
         IF call.args[6] # << >> /\ PercentagesGiven = 100
         THEN call.res = Ok(Unit)
         ELSE call.res = Err("InvalidMilestone")

\* The last call is calculate_vested_amount; its argument.
IsVestedQuery == call.op = "calculate_vested_amount"

Now == call.args[1]

\* now < start_time + cliff_period, the sum taken exactly.
BeforeCliff == i64_lt(Now, signed_add(vesting_config.start_time, vesting_config.cliff_period))

\* C13: for every schedule kind calculate_vested_amount(now) returns 0
\* whenever now < start_time + cliff_period.
C13_ZeroBeforeCliff ==
  IsVestedQuery /\ BeforeCliff => call.res = Ok(BN(0))

\* The cliff of the schedule has passed at the time of the query.
CliffPassed == IsVestedQuery /\ ~BeforeCliff

\* floor(total_amount * (now - start_time) / (end_time - start_time)), for
\* start_time <= now < end_time.
documented_linear ==
  Div(Mul(vesting_config.total_amount,
          Sub(Now.mag, vesting_config.start_time.mag)),
      Sub(vesting_config.end_time.mag, vesting_config.start_time.mag))

\* The Linear schedule of the example: start 0, end 1000, cliff 0, total 1000.
LinearExample ==
  /\ vesting_config.schedule_type = "Linear"
  /\ vesting_config.start_time = T(0)
  /\ vesting_config.end_time = T(1000)
  /\ vesting_config.cliff_period = T(0)
  /\ vesting_config.total_amount = BN(1000)

\* C14: a Linear schedule whose cliff has passed vests
\* floor(total_amount * (now - start_time) / (end_time - start_time)) before
\* end_time and total_amount from end_time on; the example schedule vests 500
\* at 500, 1000 at 1000 and 1000 at 1001.
C14_LinearVesting ==
  /\ CliffPassed /\ vesting_config.schedule_type = "Linear" =>
       IF i64_lt(Now, vesting_config.end_time)
       THEN call.res = Ok(documented_linear)
       ELSE call.res = Ok(vesting_config.total_amount)
  /\ IsVestedQuery /\ LinearExample =>
       /\ Now = T(500) => call.res = Ok(BN(500))
       /\ Now = T(1000) => call.res = Ok(BN(1000))
       /\ Now = T(1001) => call.res = Ok(BN(1000))

\* A query of the example schedule half-way, answered 500.
C14_Witness ==
  IsVestedQuery /\ LinearExample /\ Now = T(500) /\ call.res = Ok(BN(500))

\* C15: for a fixed schedule, what calculate_vested_amount returns never
\* decreases as now grows, and is never more than total_amount.
C15_MonotoneAndCapped ==
  IsVestedQuery /\ IsOk(call.res) =>
    /\ Leq(call.res.val, vesting_config.total_amount)
    /\ \A t \in VestingTimes :
         ~i64_lt(t, Now) =>
           \E later \in {calculate_vested_amount(overflow_checks,
                                                 vesting_config, t)} :
              IsOk(later) => Leq(call.res.val, later.val)

\* floor((end_time - start_time) / 4), the length of a stage.
documented_stage_duration ==
  Div(Sub(vesting_config.end_time.mag, vesting_config.start_time.mag), BN(4))

\* min(floor((now - start_time) / stage length), 4)
documented_stage ==
  LET stage == Div(Sub(Now.mag, vesting_config.start_time.mag),
                   documented_stage_duration)
  IN  IF Lt(BN(4), stage) THEN BN(4) ELSE stage

\* The Staggered schedule of the example: start 0, end 400, total 1000.
StaggeredExample ==
  /\ vesting_config.schedule_type = "Staggered"
  /\ vesting_config.start_time = T(0)
  /\ vesting_config.end_time = T(400)
  /\ vesting_config.cliff_period = T(0)
  /\ vesting_config.total_amount = BN(1000)

\* C16: a Staggered schedule whose cliff has passed vests
\* floor(total_amount / 4) * min(floor((now - start_time) /
\* floor((end_time - start_time) / 4)), 4); the example schedule vests 250 at
\* 150 and 1000 at 450.
C16_StaggeredVesting ==
  /\ CliffPassed /\ vesting_config.schedule_type = "Staggered" =>
       /\ documented_stage_duration # BN(0)
       /\ call.res = Ok(Mul(Div(vesting_config.total_amount, BN(4)),
                            documented_stage))
  /\ IsVestedQuery /\ StaggeredExample =>
       /\ Now = T(150) => call.res = Ok(BN(250))
       /\ Now = T(450) => call.res = Ok(BN(1000))

\* A CustomMilestone schedule that initialize accepted, its percentages
\* adding up to 100, with no milestone claimed.
UnclaimedMilestones ==
  /\ vesting_config.schedule_type = "CustomMilestone"
  /\ vesting_config.milestones # << >>
  /\ percentage_sum(vesting_config.milestones, 1, Len(vesting_config.milestones)) = 100
  /\ \A i \in 1 .. Len(vesting_config.milestones) : ~vesting_config.milestones[i].is_claimed

\* The time of the query is at or after the time of every milestone.
AllMilestonesDue ==
  \A i \in 1 .. Len(vesting_config.milestones) : ~i64_lt(Now, vesting_config.milestones[i].time)

\* C17: once every milestone of an accepted, unclaimed CustomMilestone
\* schedule is due and the cliff has passed, calculate_vested_amount returns
\* total_amount, whatever total_amount is.
C17_AllMilestonesVestTotal ==
  CliffPassed /\ UnclaimedMilestones /\ AllMilestonesDue =>
    call.res = Ok(vesting_config.total_amount)

\* The last call is unlock_vested_tokens.
IsUnlockVested == call.op = "unlock_vested_tokens"

\* What the last call left as it was: the Vesting account, the tokens of its
\* token account and the tokens released so far.
NothingReleased ==
  /\ vesting = call.pre.vesting
  /\ vesting_token_account = call.pre.vesting_token_account
  /\ released = call.pre.released

\* C18: the tokens released from a vesting account never decrease and never
\* exceed the account's amount, and once a release has set is_locked to false
\* every later unlock_vested_tokens fails with TokensAlreadyUnlocked and
\* releases nothing.
C18_ReleasedOnce ==
  /\ Leq(released, vesting.amount)
  /\ IsUnlockVested =>
       /\ Leq(call.pre.released, released)
       /\ ~call.pre.vesting.is_locked =>
            call.res = Err("TokensAlreadyUnlocked") /\ NothingReleased

\* An unlock refused after the amount has been released.
C18_Witness ==
  /\ IsUnlockVested
  /\ call.res = Err("TokensAlreadyUnlocked")
  /\ released = vesting.amount
  /\ released # BN(0)

\* The gates of unlock_vested_tokens at the time of the last call.
PeriodEnded == ~i64_lt(call.pre.clock, call.pre.vesting.end_time)

MarketCapReached == ~Lt(call.args[1], call.pre.vesting.target_market_cap)

\* C19: on a locked schedule unlock_vested_tokens fails with
\* VestingPeriodNotEnded before end_time and with MarketCapNotReached from
\* end_time on while the market cap is under the target, moving no tokens
\* and leaving is_locked true; it releases only when both gates hold.
C19_GatedUnlock ==
  IsUnlockVested /\ call.pre.vesting.is_locked =>
    /\ ~PeriodEnded =>
         call.res = Err("VestingPeriodNotEnded") /\ NothingReleased
    /\ PeriodEnded /\ ~MarketCapReached =>
         call.res = Err("MarketCapNotReached") /\ NothingReleased
    /\ released # call.pre.released \/ IsOk(call.res) =>
         PeriodEnded /\ MarketCapReached

\* An unlock after end_time refused for the market cap, the tokens being
\* there.
C19_Witness ==
  /\ IsUnlockVested
  /\ call.res = Err("MarketCapNotReached")
  /\ vesting.is_locked
  /\ ~Lt(vesting_token_account, vesting.amount)
  /\ vesting.amount # BN(0)

\* end_time - start_time of the Vesting account, exactly.
VestingDuration == signed_add(vesting.end_time, I64(~vesting.start_time.neg, vesting.start_time.mag))

\* The last call is initialize_vesting, or lock_tokens, with a duration
\* outside 7 .. 730 days or, for initialize_vesting, a start that is not
\* after the time of the call.
BadVestingTimes ==
  /\ call.op = "initialize_vesting"
  /\ \/ ~within_vesting_period(signed_add(call.args[3], I64(~call.args[2].neg, call.args[2].mag)))
     \/ ~i64_lt(call.pre.clock, call.args[2])

BadLockDuration == call.op = "lock_tokens" /\ ~within_vesting_period(call.args[3])

\* C20: no Vesting account and no vault lock comes to exist with a duration
\* outside 7 .. 730 days: initialize_vesting and lock_tokens fail on such a
\* duration (initialize_vesting also on a start that is not in the future),
\* with InvalidTimeParameters when the amount is acceptable, and leave the
\* account as it was.
C20_DurationWithinBounds ==
  /\ vesting.created => within_vesting_period(VestingDuration)
  /\ BadVestingTimes =>
       /\ ~IsOk(call.res)
       /\ Lt(BN(MINIMUM_AMOUNT), call.args[1]) => call.res = Err("InvalidTimeParameters")
       /\ vesting = call.pre.vesting
  /\ BadLockDuration =>
       /\ ~IsOk(call.res)
       /\ Lt(BN(MINIMUM_AMOUNT), call.args[2]) => call.res = Err("InvalidTimeParameters")
       /\ vault = call.pre.vault

\* C21: a withdraw or a set_params whose signer is not launchpad.authority
\* fails with UnauthorizedAccess and changes neither the curve, nor the fee
\* and authority fields, nor a vault balance; and in deepseek.rs every step
\* that changes the curve is a committed buy or sell, or a withdraw or
\* set_params signed by the authority.
IsGuardedCall == last.op \in {"withdraw", "set_params"}

Unauthorized == IsGuardedCall /\ last.args[1] # "authority"

C21_AuthorityChecked ==
  [][/\ (last' # last /\ Unauthorized')
          => /\ last'.res = Err("UnauthorizedAccess")
             /\ UNCHANGED <<curve, launched, fees, sol_vault, token_vault>>
     /\ (variant = "deepseek" /\ curve' # curve)
          => \/ IsCommittedBuy' \/ IsCommittedSell'
             \/ IsGuardedCall' /\ last'.args[1] = "authority"]_vars

\* A stranger's withdraw was refused while the vault held SOL of the curve,
\* and a stranger's set_params was refused on a curve already set up.
C21_Witness ==
  /\ Unauthorized
  /\ last.res = Err("UnauthorizedAccess")
  /\ last.was_launched
  /\ last.op = "withdraw" => curve.real_sol_reserves # Zero /\ sol_vault # Zero

\* C22: a checkpoint of a Linear stream that succeeds returns rate times the
\* whole intervals elapsed since last_update_time, adds that amount to
\* total_streamed and sets last_update_time to now; one that fails writes
\* nothing; and a checkpoint at a time not before last_update_time lowers
\* neither total_streamed nor last_update_time.
IsCheckpoint == call.op = "checkpoint" /\ call.pre.stream_type = "Linear"

\* The whole intervals between two times, the later second, for a positive
\* interval.
documented_intervals == Div(signed_add(Now, I64(~call.pre.last_update_time.neg, call.pre.last_update_time.mag)).mag, call.pre.interval.mag)

NowNotBefore == ~i64_lt(Now, call.pre.last_update_time)

C22_Checkpoint ==
  /\ (IsCheckpoint /\ IsOk(call.res) /\ NowNotBefore /\ ~call.pre.interval.neg)
       => /\ call.res.val = Mul(call.pre.rate, documented_intervals)
          /\ stream_config.total_streamed
               = Add(call.pre.total_streamed, call.res.val)
          /\ stream_config.last_update_time = Now
  /\ (IsCheckpoint /\ ~IsOk(call.res)) => stream_config = call.pre
  /\ (IsCheckpoint /\ NowNotBefore)
       => /\ ~Lt(stream_config.total_streamed, call.pre.total_streamed)
          /\ ~i64_lt(stream_config.last_update_time,
                     call.pre.last_update_time)

\* A second checkpoint that released something on top of an earlier release.
C22_Witness ==
  /\ IsCheckpoint /\ IsOk(call.res) /\ NowNotBefore
  /\ call.res.val # << >>
  /\ call.pre.total_streamed # << >>
  /\ Mod(signed_add(Now, I64(~call.pre.last_update_time.neg, call.pre.last_update_time.mag)).mag, call.pre.interval.mag) # << >>

\* C23: a VestingConfig::initialize that returns an error has written no
\* field of the config: schedule_type, start_time, end_time, cliff_period,
\* total_amount, released_amount and milestones are as before the call.
C23_FailedInitializeWritesNothing ==
  (IsInitialize /\ call.res.tag = "Err") => vesting_config = call.pre

\* C24: in deepseek.rs a buy whose quote is above max_sol_cost and a sell
\* whose quote is below min_sol_output fail with InsufficientBalance and
\* leave the curve and both vaults as they were; a buy that commits had a
\* quote of at most max_sol_cost, a sell one of at least min_sol_output.
BuyQuote == calculate_buy_price(variant, overflow_checks, curve, last'.args[2])

SellQuote == calculate_sell_price(variant, overflow_checks, curve, last'.args[2])

C24_SlippageBound ==
  [][/\ (/\ last' # last /\ last'.op = "buy" /\ IsOk(BuyQuote)
         /\ ~Leq(BuyQuote.val, last'.args[3]))
          => /\ last'.res = Err("InsufficientBalance")
             /\ UNCHANGED <<curve, sol_vault, token_vault, updates>>
     /\ (/\ last' # last /\ last'.op = "sell" /\ IsOk(SellQuote)
         /\ ~Leq(last'.args[3], SellQuote.val))
          => /\ last'.res = Err("InsufficientBalance")
             /\ UNCHANGED <<curve, sol_vault, token_vault, updates>>
     /\ (last' # last /\ last'.op = "buy" /\ IsOk(last'.res))
          => IsOk(BuyQuote) /\ Leq(BuyQuote.val, last'.args[3])
     /\ (last' # last /\ last'.op = "sell" /\ IsOk(last'.res))
          => IsOk(SellQuote) /\ Leq(last'.args[3], SellQuote.val)]_vars

\* A buy refused for its price alone: the user held the quoted SOL and the
\* vault held the tokens.
C24_Witness ==
  /\ last.op = "buy"
  /\ last.res = Err("InsufficientBalance")
  /\ \E q \in {calculate_buy_price(variant, overflow_checks, curve, last.args[2])} :
       /\ IsOk(q)
       /\ Leq(q.val, last.args[1])
       /\ ~Leq(q.val, last.args[3])
  /\ Leq(last.args[2], token_vault)

\* C25: in gpt.rs a sell_tokens never fails in the SOL step of its closing
\* update_reserves: when the call ends in CalculationError or in a panic,
\* the quote had failed or the token reserve would have left u64; and a
\* sell that commits leaves real_sol_reserves no larger than before.
IsSellTokens == last.op = "sell_tokens"

SoldQuote == calculate_sell_price(variant, overflow_checks, last.pre, TradedAmount)

TokenReserveOverflows == ~Lt(Add(last.pre.real_token_reserves, TradedAmount), U64)

C25_SellNeverFailsOnSol ==
  /\ (IsSellTokens /\ last.res \in {Abort, Err("CalculationError")})
       => ~IsOk(SoldQuote) \/ TokenReserveOverflows
  /\ (IsSellTokens /\ IsOk(last.res))
       => Leq(curve.real_sol_reserves, last.pre.real_sol_reserves)

\* C26: the vault token account receives tokens only from lock_tokens and
\* gives them only to unlock_tokens, so it holds the deposits less the
\* withdrawals; vault.locked_amount is that number after every sequence of
\* the two calls, a second lock_tokens before an unlock included.
C26_LockedAmountIsDeposits ==
  variant \in Libs => vault.locked_amount = vault_token_account

\* C27: an unlock_tokens before vault.locked_until fails with
\* TokensStillLocked and leaves the vault and its tokens as they were; one
\* that succeeds moves exactly locked_amount out of the vault token account
\* and sets locked_amount to 0; and on a vault that has been locked and
\* emptied, a further unlock_tokens fails with InsufficientBalance.
IsUnlockTokens == call.op = "unlock_tokens"

StillLocked == i64_lt(call.pre.clock, call.pre.vault.locked_until)

AlreadyUnlocked == call.pre.vault.locked_amount = BN(0) /\ call.pre.vault.locked_until # Zero

C27_UnlockOnceAfterExpiry ==
  IsUnlockTokens =>
    /\ StillLocked
         => /\ call.res = Err("TokensStillLocked")
            /\ vault = call.pre.vault
            /\ vault_token_account = call.pre.vault_token_account
    /\ IsOk(call.res)
         => /\ Add(vault_token_account, call.pre.vault.locked_amount)
                 = call.pre.vault_token_account
            /\ vault.locked_amount = BN(0)
    /\ (~StillLocked /\ AlreadyUnlocked)
         => call.res = Err("InsufficientBalance")

\* C28: a Staggered schedule that initialize accepted vests total_amount at
\* every time from end_time on once the cliff has passed, whether or not
\* total_amount and end_time - start_time are multiples of 4.
C28_StaggeredVestsTotalAtEnd ==
  (/\ CliffPassed
   /\ vesting_config.schedule_type = "Staggered"
   /\ ~i64_lt(Now, vesting_config.end_time))
    => call.res = Ok(vesting_config.total_amount)

\* The config is one that initialize accepted: a failed call leaves
\* total_amount at 0 or a CustomMilestone schedule without milestones.
Accepted ==
  /\ vesting_config.total_amount # BN(0)
  /\ vesting_config.schedule_type = "CustomMilestone"
       => vesting_config.milestones # << >>

\* C29: on a schedule that initialize accepted, calculate_vested_amount
\* returns a value or a CustomError at every time; it never panics.
C29_VestedAmountNeverAborts ==
  (IsVestedQuery /\ Accepted) => call.res # Abort

\* C30: in src/src/lib.rs, on a linear curve (curve_type 0) fresh from
\* initialize_launch (reserve_sol 0, reserve_token = total_supply), a
\* buy_tokens of a positive amount does not panic, and when it commits
\* reserve_sol has grown by the amount and reserve_token has shrunk by the
\* tokens sent out of the vault; and after every sequence of buys and sells
\* reserve_token is at most total_supply.
IsFirstBuy ==
  /\ call.op = "buy_tokens"
  /\ call.pre.curve_type = 0
  /\ call.pre.reserve_sol = BN(0)
  /\ call.pre.reserve_token = call.pre.total_supply
  /\ call.args[2] # BN(0)

C30_FirstBuyCommits ==
  /\ IsFirstBuy
       => /\ call.res # Abort
          /\ IsOk(call.res)
               => /\ launch_curve.reserve_sol = Add(call.pre.reserve_sol, call.args[2])
                  /\ Leq(launch_curve.reserve_token, call.pre.reserve_token)
  /\ launch_curve.created
       => Leq(launch_curve.reserve_token, launch_curve.total_supply)

====
